---- MODULE Spec2Model ----
(***************************************************************************)
(* Model of the request pipeline of remote_mcp_server:                     *)
(*   - RateLimiter (middleware.py), sequentially and under interleaving;   *)
(*   - require_api_key / with_rate_limiting (middleware.py) around a       *)
(*     downstream handler, with SubscriptionBillingService (billing.py)    *)
(*     as the validator and the usage meter.                               *)
(***************************************************************************)
EXTENDS Integers, Sequences, FiniteSets, TLC

(***************************************************************************)
(* Bounds of the model.                                                    *)
(***************************************************************************)
MaxDays == 1          \* the clock reaches day 0 .. MaxDays
MaxSteps == 2         \* ... and, within a day, 0 .. MaxSteps half-windows
MaxCalls == 4         \* calls to is_rate_limited in the sequential driver
MaxLimit == 2         \* rate_limit values passed to is_rate_limited: 1 .. MaxLimit
MaxThreadCalls == 2   \* calls each thread makes in the interleaved driver
MaxRequests == 3      \* requests sent through the require_api_key pipeline
MaxAdminCalls == 2    \* /subscription/ requests and direct billing-service calls
BasicRateLimit == 2   \* SUBSCRIPTION_PLANS['basic'] rate_limit, scaled down from 100
ProRateLimit == 3     \* SUBSCRIPTION_PLANS['professional'] rate_limit, scaled down from 500
EntRateLimit == 4     \* SUBSCRIPTION_PLANS['enterprise'] rate_limit, scaled down from 2000

(***************************************************************************)
(* Program constants.                                                      *)
(***************************************************************************)
WindowSeconds == 60   \* "Reset counts every minute"
DaySeconds == 86400   \* timedelta.seconds is the seconds part of the delta, 0 .. 86399

TimeStep == WindowSeconds \div 2
Instants == {d * DaySeconds + h * TimeStep : d \in 0..MaxDays, h \in 0..MaxSteps}

Keys == {"k1", "k2"}
NoKey == ""
NoReset == -1         \* api_key not in self.last_reset
Absent == -1          \* a field the returned dict does not have
RateLimits == 1..MaxLimit
Threads == {"t1", "t2"}
StoredKeys == {"k1"}  \* the keys that have an item in the subscriptions table
Statuses == {"active", "trialing", "canceled", "incomplete_expired"}
DefaultPlanId == "price_basic_monthly"   \* create_customer_and_subscription's plan_id
PeriodEnd == DaySeconds   \* current_period_end of the stored subscription
GetOutcomes == {"ok", "ClientError", "Exception"}      \* subscription_table.get_item
StripeOutcomes == {"ok", "StripeError", "Exception"}   \* stripe.Subscription.retrieve
UpdateOutcomes == {"ok", "ClientError", "Exception"}   \* subscription_table.update_item
HandlerOutcomes == {"ok", "Exception", "SystemExit"}   \* func(event, context)
BillingServices == {"ok", "None"}                      \* APIKeyMiddleware().billing_service

VARIABLES
    now,              \* datetime.utcnow(), in whole seconds
    request_counts,   \* RateLimiter.request_counts
    last_reset,       \* RateLimiter.last_reset
    ret,              \* what the last sequential is_rate_limited call returned
    calls,            \* number of sequential calls made
    winStart,         \* per key: when its current 60-second window began
    winCalls,         \* per key: calls made in that window
    winLimit,         \* per key: the rate_limit of those calls (0: they differ)
    tpc,              \* per thread: its position inside is_rate_limited
    tlocal,           \* per thread: its locals (api_key, rate_limit, current_count)
    tcalls,           \* per thread: calls started
    admitted,         \* interleaved driver: calls that returned limited = False
    usedLimits,       \* interleaved driver: the rate_limit values passed so far
    subscription_table, \* the DynamoDB subscriptions table, by api_key
    stripe,           \* what stripe.Subscription.retrieve reports, by subscription id
    pc,               \* position of the request inside require_api_key's wrapper
    cfg,              \* the decorators around the handler this request goes through
    billing_service,  \* APIKeyMiddleware().billing_service: "None" when its construction fails
    api_key,          \* wrapper local api_key
    validation,       \* wrapper locals is_valid, validation_details
    event,            \* what the wrapper has put into the event
    response,         \* what the wrapper returned
    raised,           \* the exception that left the wrapper, if any
    log,              \* the collaborators called for this request, in order
    fault,            \* how the collaborators of this request behaved
    usage0,           \* the usage_count of every key when the request began
    nreq,             \* requests begun
    admin,            \* the last request to a /subscription/ endpoint and its outcome
    rpc,              \* the last JSON-RPC request dispatched and its response
    http              \* the last Lambda event routed and its response

limiterVars == <<request_counts, last_reset>>
seqVars == <<ret, calls, winStart, winCalls, winLimit>>
concVars == <<tpc, tlocal, tcalls, admitted, usedLimits>>
storeVars == <<subscription_table, stripe, billing_service>>
reqVars == <<pc, cfg, api_key, validation, event, response, raised,
             log, fault, usage0, nreq>>
edgeVars == <<admin, rpc, http>>
vars == <<now, limiterVars, seqVars, concVars, storeVars, reqVars, edgeVars>>

(***************************************************************************)
(* RateLimiter.is_rate_limited (middleware.py 263-301)                     *)
(***************************************************************************)
\* (current_time - self.last_reset[api_key]).seconds for a non-negative delta
Seconds(delta) == delta % DaySeconds

\* api_key not in self.last_reset or (...).seconds >= 60
NeedsReset(lr, k, t) ==
    \/ lr[k] = NoReset
    \/ Seconds(t - lr[k]) >= WindowSeconds

\* A reset that empties the whole dict instead of the caller's entry.
CountsAfterReset_AllKeys(rc, lr, k, t) ==
    IF NeedsReset(lr, k, t) THEN [x \in DOMAIN rc |-> 0] ELSE rc

CountsAfterReset(rc, lr, k, t) ==
    IF NeedsReset(lr, k, t) THEN [rc EXCEPT ![k] = 0] ELSE rc

ResetsAfterReset(lr, k, t) ==
    IF NeedsReset(lr, k, t) THEN [lr EXCEPT ![k] = t] ELSE lr

\* Off by one: the comparison written with > lets one call too many through.
OverLimit_Strict(current_count, rate_limit) == current_count > rate_limit

\* if current_count >= rate_limit
OverLimit(current_count, rate_limit) == current_count >= rate_limit

LimitedInfo(k, current_count, rate_limit, reset_time) ==
    [key |-> k, limited |-> TRUE, current_count |-> current_count,
     rate_limit |-> rate_limit, remaining |-> Absent, reset_time |-> reset_time]

AdmittedInfo(k, current_count, rate_limit) ==
    [key |-> k, limited |-> FALSE, current_count |-> current_count + 1,
     rate_limit |-> rate_limit, remaining |-> rate_limit - (current_count + 1),
     reset_time |-> Absent]

\* The whole call on state (rc, lr) at time t: the info dict it returns and the
\* state it leaves.  The variant below counts the rejected call too.
is_rate_limited_CountsRejected(rc, lr, k, rate_limit, t) ==
    LET rc1 == CountsAfterReset(rc, lr, k, t)
        lr1 == ResetsAfterReset(lr, k, t)
        current_count == rc1[k]
    IN  IF OverLimit(current_count, rate_limit)
        THEN [info |-> LimitedInfo(k, current_count, rate_limit, lr1[k]),
              counts |-> [rc1 EXCEPT ![k] = current_count + 1], resets |-> lr1]
        ELSE [info |-> AdmittedInfo(k, current_count, rate_limit),
              counts |-> [rc1 EXCEPT ![k] = current_count + 1], resets |-> lr1]

is_rate_limited(rc, lr, k, rate_limit, t) ==
    LET rc1 == CountsAfterReset(rc, lr, k, t)
        lr1 == ResetsAfterReset(lr, k, t)
        current_count == rc1[k]
    IN  IF OverLimit(current_count, rate_limit)
        THEN [info |-> LimitedInfo(k, current_count, rate_limit, lr1[k]),
              counts |-> rc1, resets |-> lr1]
        ELSE [info |-> AdmittedInfo(k, current_count, rate_limit),
              counts |-> [rc1 EXCEPT ![k] = current_count + 1], resets |-> lr1]

NoRet == [key |-> NoKey, limited |-> FALSE, current_count |-> Absent,
          rate_limit |-> Absent, remaining |-> Absent, reset_time |-> Absent]

(***************************************************************************)
(* Initial state: rate_limiter = RateLimiter() at import, nothing called.  *)
(***************************************************************************)
InitLimiter ==
    /\ now = 0
    /\ request_counts = [k \in Keys |-> 0]
    /\ last_reset = [k \in Keys |-> NoReset]

InitSeq ==
    /\ ret = NoRet
    /\ calls = 0
    /\ winStart = [k \in Keys |-> NoReset]
    /\ winCalls = [k \in Keys |-> 0]
    /\ winLimit = [k \in Keys |-> 0]

InitConc ==
    /\ tpc = [t \in Threads |-> "idle"]
    /\ tlocal = [t \in Threads |-> [api_key |-> NoKey, rate_limit |-> 0, current_count |-> 0]]
    /\ tcalls = [t \in Threads |-> 0]
    /\ admitted = 0
    /\ usedLimits = {}

\* The Stripe customer and subscription created for a key.
CustomerOf(k) == IF k = "k1" THEN "cus_1" ELSE "cus_2"
SubscriptionOf(k) == IF k = "k1" THEN "sub_1" ELSE "sub_2"

\* The subscriptions table holds an item for each stored key, as written by
\* create_customer_and_subscription (usage_count 0, last_usage None).
NoItem == [present |-> FALSE, customer_id |-> "", subscription_id |-> "",
           status |-> "", plan_id |-> "", usage_count |-> 0,
           last_usage |-> Absent, current_period_end |-> Absent]

InitStore ==
    /\ subscription_table =
           [k \in Keys |-> IF k \in StoredKeys
                           THEN [present |-> TRUE, customer_id |-> CustomerOf(k),
                                 subscription_id |-> SubscriptionOf(k),
                                 status |-> "active",
                                 plan_id |-> DefaultPlanId,
                                 usage_count |-> 0, last_usage |-> Absent,
                                 current_period_end |-> PeriodEnd]
                           ELSE NoItem]
    /\ billing_service \in BillingServices
    /\ stripe = [sid \in {SubscriptionOf(k) : k \in StoredKeys} |->
                    [status |-> "active", current_period_end |-> PeriodEnd]]

NoResponse == [statusCode |-> 0]
NoValidation == [is_valid |-> FALSE, details |-> [valid |-> FALSE], calls |-> << >>]
NoFault == [get |-> "none", stripe |-> "none", update |-> "none",
            track |-> "none", handler |-> "none"]
NoCfg == [track_usage |-> FALSE, rate_limited |-> FALSE]
NoEvent == [api_key |-> NoKey, subscribed |-> FALSE]

InitReq ==
    /\ pc = "idle"
    /\ cfg = NoCfg
    /\ api_key = NoKey
    /\ validation = NoValidation
    /\ event = NoEvent
    /\ response = NoResponse
    /\ raised = "none"
    /\ log = << >>
    /\ fault = NoFault
    /\ usage0 = [k \in Keys |-> 0]
    /\ nreq = 0

\* No /subscription/ request and no JSON-RPC request has been handled yet.
NoAdmin == [op |-> "none", valid_key |-> FALSE, ran |-> FALSE,
            statusCode |-> 0, error_code |-> "", n |-> 0]
NoRpc == [dispatcher |-> "none", request |-> [x \in {} |-> ""],
          response |-> [x \in {} |-> ""], handler |-> "none"]

\* No event has been routed yet.
NoHttp == [handler |-> "none", event |-> [x \in {} |-> ""],
           response |-> [statusCode |-> 0], dispatcher |-> "none",
           raised |-> "none", trace |-> << >>, request_context |-> "empty"]

InitEdge ==
    /\ admin = NoAdmin
    /\ rpc = NoRpc
    /\ http = NoHttp

Init == InitLimiter /\ InitSeq /\ InitConc /\ InitStore /\ InitReq /\ InitEdge

(***************************************************************************)
(* The clock moves forward to a later instant.                             *)
(***************************************************************************)
Tick ==
    /\ pc = "idle"
    /\ \E t \in Instants : t > now /\ now' = t
    /\ UNCHANGED <<limiterVars, seqVars, concVars, storeVars, reqVars, edgeVars>>

(***************************************************************************)
(* Sequential driver: one whole call of is_rate_limited per step.          *)
(***************************************************************************)
\* The 60-second window the call at time t for key k falls in begins at t when
\* the key is new or its window has elapsed.
WindowElapsed(k, t) == winStart[k] = NoReset \/ t - winStart[k] >= WindowSeconds

\* What one call does to the limiter, and the bookkeeping of windows.
LimiterCall(k, rate_limit) ==
    LET r == is_rate_limited(request_counts, last_reset, k, rate_limit, now)
    IN  /\ request_counts' = r.counts
        /\ last_reset' = r.resets
        /\ ret' = r.info
        /\ IF WindowElapsed(k, now)
           THEN /\ winStart' = [winStart EXCEPT ![k] = now]
                /\ winCalls' = [winCalls EXCEPT ![k] = 1]
                /\ winLimit' = [winLimit EXCEPT ![k] = rate_limit]
           ELSE /\ winStart' = winStart
                /\ winCalls' = [winCalls EXCEPT ![k] = @ + 1]
                /\ winLimit' = [winLimit EXCEPT ![k] = IF @ = rate_limit THEN @ ELSE 0]

Call(k, rate_limit) ==
    /\ calls < MaxCalls
    /\ calls' = calls + 1
    /\ LimiterCall(k, rate_limit)
    /\ UNCHANGED <<now, edgeVars, concVars, storeVars, reqVars>>

CallAny == \E k \in Keys, n \in RateLimits : Call(k, n)

NextLimiter == Tick \/ CallAny
SpecLimiter == Init /\ [][NextLimiter]_vars

(***************************************************************************)
(* C1: sequential calls for one key with one rate_limit N >= 1: in each    *)
(* 60-second window exactly the first N calls return limited = False, with *)
(* current_count 1..N and remaining = N - current_count, every later call  *)
(* of the window returns limited = True, and the first call after the      *)
(* window has elapsed is call number 1 again.                              *)
(***************************************************************************)
C1_WindowAdmitsExactlyLimit ==
    (ret.key # NoKey /\ winLimit[ret.key] = ret.rate_limit) =>
        /\ ret.limited = (winCalls[ret.key] > ret.rate_limit)
        /\ ~ret.limited =>
              /\ ret.current_count = winCalls[ret.key]
              /\ ret.remaining = ret.rate_limit - ret.current_count

(***************************************************************************)
(* C2: a call for a key whose window_start lies 60 seconds or more in the  *)
(* past, however far, resets the count and sets window_start to now before *)
(* the comparison: it is admitted as call number 1.                        *)
(***************************************************************************)
C2_ResetWheneverWindowElapsed ==
    [][\A k \in Keys :
          (/\ calls' = calls + 1
           /\ ret'.key = k
           /\ last_reset[k] # NoReset
           /\ now - last_reset[k] >= WindowSeconds)
          => (/\ last_reset'[k] = now
              /\ ~ret'.limited
              /\ ret'.current_count = 1
              /\ request_counts'[k] = 1)]_vars

(***************************************************************************)
(* Interleaved driver: threads run is_rate_limited on the shared           *)
(* rate_limiter for the same key; nothing in RateLimiter serialises them.  *)
(* A thread can be pre-empted between its statements.                      *)
(***************************************************************************)
ConcKey == "k1"

\* lines 274-279: read the clock, reset the window if it is new or elapsed
T_enter(t, rate_limit) ==
    /\ tpc[t] = "idle"
    /\ tcalls[t] < MaxThreadCalls
    /\ tcalls' = [tcalls EXCEPT ![t] = @ + 1]
    /\ usedLimits' = usedLimits \cup {rate_limit}
    /\ request_counts' = CountsAfterReset(request_counts, last_reset, ConcKey, now)
    /\ last_reset' = ResetsAfterReset(last_reset, ConcKey, now)
    /\ tlocal' = [tlocal EXCEPT ![t] =
                    [api_key |-> ConcKey, rate_limit |-> rate_limit, current_count |-> 0]]
    /\ tpc' = [tpc EXCEPT ![t] = "read"]
    /\ UNCHANGED <<now, edgeVars, seqVars, admitted, storeVars, reqVars>>

\* lines 282-283: current_count = self.request_counts.get(api_key, 0)
T_read(t) ==
    /\ tpc[t] = "read"
    /\ tlocal' = [tlocal EXCEPT ![t].current_count = request_counts[tlocal[t].api_key]]
    /\ tpc' = [tpc EXCEPT ![t] = "compare"]
    /\ UNCHANGED <<now, edgeVars, limiterVars, seqVars, tcalls, admitted, usedLimits, storeVars, reqVars>>

\* lines 285-291: if current_count >= rate_limit: return True, {...}
T_compare(t) ==
    /\ tpc[t] = "compare"
    /\ tpc' = [tpc EXCEPT ![t] =
                 IF OverLimit(tlocal[t].current_count, tlocal[t].rate_limit)
                 THEN "idle" ELSE "write"]
    /\ UNCHANGED <<now, edgeVars, limiterVars, seqVars, tlocal, tcalls, admitted, usedLimits, storeVars, reqVars>>

\* lines 293-301: self.request_counts[api_key] = current_count + 1; return False, {...}
T_write(t) ==
    /\ tpc[t] = "write"
    /\ request_counts' = [request_counts EXCEPT
                            ![tlocal[t].api_key] = tlocal[t].current_count + 1]
    /\ admitted' = admitted + 1
    /\ tpc' = [tpc EXCEPT ![t] = "idle"]
    /\ UNCHANGED <<now, edgeVars, last_reset, seqVars, tlocal, tcalls, usedLimits, storeVars, reqVars>>

T_enterAny == \E t \in Threads, n \in RateLimits : T_enter(t, n)
T_readAny == \E t \in Threads : T_read(t)
T_compareAny == \E t \in Threads : T_compare(t)
T_writeAny == \E t \in Threads : T_write(t)

NextConc == T_enterAny \/ T_readAny \/ T_compareAny \/ T_writeAny
SpecConc == Init /\ [][NextConc]_vars

(***************************************************************************)
(* C3: concurrent calls for one key lose no increment: within one window   *)
(* at most rate_limit calls return limited = False, and once the calls     *)
(* have returned the stored count equals the number of admitted calls.     *)
(***************************************************************************)
C3_NoLostIncrement ==
    /\ \A n \in RateLimits : usedLimits = {n} => admitted <= n
    /\ (\A t \in Threads : tpc[t] = "idle") => request_counts[ConcKey] = admitted

(***************************************************************************)
(* Python dict helpers.                                                    *)
(***************************************************************************)
\* d.get(key, default)
Get(d, key, default) == IF key \in DOMAIN d THEN d[key] ELSE default

\* d.update(e): the entries of e win
Update(d, e) == e @@ d

EmptyDict == [x \in {} |-> ""]

(***************************************************************************)
(* APIKeyMiddleware.extract_api_key (middleware.py 35-56). A header value  *)
(* is the string scheme + token; for X-API-Key the scheme is empty.        *)
(***************************************************************************)
NoHeader == [scheme |-> "", token |-> ""]     \* headers.get(name) is None
Truthy(v) == v.scheme # "" \/ v.token # ""

\* headers.get(a) or headers.get(b)
GetEither(headers, a, b) ==
    IF Truthy(Get(headers, a, NoHeader)) THEN Get(headers, a, NoHeader)
    ELSE Get(headers, b, NoHeader)

extract_api_key(headers) ==
    LET key_header == GetEither(headers, "X-API-Key", "x-api-key")
        auth_header == GetEither(headers, "Authorization", "authorization")
    IN  IF Truthy(key_header) THEN key_header.token
        ELSE IF Truthy(auth_header) /\ auth_header.scheme = "Bearer "
             THEN auth_header.token
             ELSE NoKey

\* The headers the requests of the model carry.
RequestHeaders ==
    {EmptyDict}
    \cup {("X-API-Key" :> [scheme |-> "", token |-> k]) : k \in Keys}
    \cup {("Authorization" :> [scheme |-> "Bearer ", token |-> "k1"]),
          ("Authorization" :> [scheme |-> "Basic ", token |-> "k1"])}

(***************************************************************************)
(* SubscriptionBillingService.validate_api_key_and_subscription            *)
(* (billing.py 169-225) and get_subscription_by_api_key (150-167).         *)
(***************************************************************************)
ActiveStatuses == {"active", "trialing"}

ReasonNotFound == "API key not found"
ReasonPeriodEnded == "Subscription period ended"
ReasonStripeError == "Subscription validation failed"
ReasonDefault == "Invalid API key"

\* f'Subscription status: {stripe_subscription.status}'
ReasonStatus(status) ==
    CASE status = "canceled" -> "Subscription status: canceled"
      [] status = "incomplete_expired" -> "Subscription status: incomplete_expired"
      [] status = "active" -> "Subscription status: active"
      [] status = "trialing" -> "Subscription status: trialing"

\* The lookup ignores the key and returns the stored item of another one.
get_subscription_by_api_key_AnyKey(table, k, getOutcome) ==
    IF getOutcome = "ok" THEN table[CHOOSE x \in StoredKeys : TRUE] ELSE NoItem

\* get_item: the item, or None when there is none or on ClientError; any other
\* exception leaves the function.
get_subscription_by_api_key(table, k, getOutcome) ==
    IF getOutcome = "ok" /\ k \in DOMAIN table /\ table[k].present
    THEN table[k] ELSE NoItem

\* stripe_subscription.current_period_end < now
PeriodEnded(current_period_end, t) == current_period_end < t

\* The verdict of an earlier request is reused instead of asking Stripe again.
retrieve_status_Stored(billing, subscription) == subscription.status

\* stripe.Subscription.retrieve(subscription['subscription_id']).status
retrieve_status(billing, subscription) == billing[subscription.subscription_id].status

\* The call's outcome: the exception that leaves it ("none" if it returns), the
\* dict it returns, the table it leaves, and the collaborator calls it made.
\* The variant below stores the new status only when the verdict is valid.
validate_api_key_and_subscription_SyncWhenValid(table, billing, k, t, getOutcome, stripeOutcome, updateOutcome) ==
    LET subscription == get_subscription_by_api_key(table, k, getOutcome)
        status == retrieve_status(billing, subscription)
        current_period_end == billing[subscription.subscription_id].current_period_end
        differs == status # subscription.status
        updated == [table EXCEPT ![k].status = status]
        upto_get == <<"get_item">>
        upto_retrieve == <<"get_item", "retrieve">>
        upto_update == IF differs THEN <<"get_item", "retrieve", "update_item">>
                       ELSE upto_retrieve
    IN  IF getOutcome = "Exception"
        THEN [exc |-> "Exception", result |-> EmptyDict, table |-> table, calls |-> upto_get]
        ELSE IF ~subscription.present
        THEN [exc |-> "none", table |-> table, calls |-> upto_get,
              result |-> [valid |-> FALSE, reason |-> ReasonNotFound]]
        ELSE IF stripeOutcome = "StripeError"
        THEN [exc |-> "none", table |-> table, calls |-> upto_retrieve,
              result |-> [valid |-> FALSE, reason |-> ReasonStripeError]]
        ELSE IF stripeOutcome = "Exception"
        THEN [exc |-> "Exception", result |-> EmptyDict, table |-> table,
              calls |-> upto_retrieve]
        ELSE IF differs /\ updateOutcome # "ok"
        THEN [exc |-> updateOutcome, result |-> EmptyDict, table |-> table,
              calls |-> upto_update]
        ELSE LET table1 == IF differs THEN updated ELSE table
             IN  IF status \notin ActiveStatuses
                 THEN [exc |-> "none", table |-> table, calls |-> upto_update,
                       result |-> [valid |-> FALSE, reason |-> ReasonStatus(status)]]
                 ELSE IF PeriodEnded(current_period_end, t)
                 THEN [exc |-> "none", table |-> table, calls |-> upto_update,
                       result |-> [valid |-> FALSE, reason |-> ReasonPeriodEnded]]
                 ELSE [exc |-> "none", table |-> table1, calls |-> upto_update,
                       result |-> [valid |-> TRUE,
                                   customer_id |-> subscription.customer_id,
                                   subscription_id |-> subscription.subscription_id,
                                   plan_id |-> subscription.plan_id,
                                   status |-> status]]

validate_api_key_and_subscription(table, billing, k, t, getOutcome, stripeOutcome, updateOutcome) ==
    LET subscription == get_subscription_by_api_key(table, k, getOutcome)
        status == retrieve_status(billing, subscription)
        current_period_end == billing[subscription.subscription_id].current_period_end
        differs == status # subscription.status
        updated == [table EXCEPT ![k].status = status]
        upto_get == <<"get_item">>
        upto_retrieve == <<"get_item", "retrieve">>
        upto_update == IF differs THEN <<"get_item", "retrieve", "update_item">>
                       ELSE upto_retrieve
    IN  IF getOutcome = "Exception"
        THEN [exc |-> "Exception", result |-> EmptyDict, table |-> table, calls |-> upto_get]
        ELSE IF ~subscription.present
        THEN [exc |-> "none", table |-> table, calls |-> upto_get,
              result |-> [valid |-> FALSE, reason |-> ReasonNotFound]]
        ELSE IF stripeOutcome = "StripeError"
        THEN [exc |-> "none", table |-> table, calls |-> upto_retrieve,
              result |-> [valid |-> FALSE, reason |-> ReasonStripeError]]
        ELSE IF stripeOutcome = "Exception"
        THEN [exc |-> "Exception", result |-> EmptyDict, table |-> table,
              calls |-> upto_retrieve]
        ELSE IF differs /\ updateOutcome # "ok"
        THEN [exc |-> updateOutcome, result |-> EmptyDict, table |-> table,
              calls |-> upto_update]
        ELSE LET table1 == IF differs THEN updated ELSE table
             IN  IF status \notin ActiveStatuses
                 THEN [exc |-> "none", table |-> table1, calls |-> upto_update,
                       result |-> [valid |-> FALSE, reason |-> ReasonStatus(status)]]
                 ELSE IF PeriodEnded(current_period_end, t)
                 THEN [exc |-> "none", table |-> table1, calls |-> upto_update,
                       result |-> [valid |-> FALSE, reason |-> ReasonPeriodEnded]]
                 ELSE [exc |-> "none", table |-> table1, calls |-> upto_update,
                       result |-> [valid |-> TRUE,
                                   customer_id |-> subscription.customer_id,
                                   subscription_id |-> subscription.subscription_id,
                                   plan_id |-> subscription.plan_id,
                                   status |-> status]]

(***************************************************************************)
(* APIKeyMiddleware.validate_subscription (middleware.py 58-84)            *)
(***************************************************************************)
validate_subscription(service, table, billing, k, t, getOutcome, stripeOutcome, updateOutcome) ==
    LET v == validate_api_key_and_subscription(table, billing, k, t,
                                               getOutcome, stripeOutcome, updateOutcome)
    IN  IF service = "None"
        THEN [is_valid |-> FALSE, table |-> table, calls |-> << >>,
              details |-> [error |-> "Service temporarily unavailable"]]
        ELSE IF v.exc # "none"
        THEN [is_valid |-> FALSE, table |-> v.table, calls |-> v.calls,
              details |-> [error |-> "Validation failed"]]
        ELSE [is_valid |-> v.result.valid, table |-> v.table, calls |-> v.calls,
              details |-> v.result]

(***************************************************************************)
(* SubscriptionBillingService.track_api_usage (billing.py 227-258) behind  *)
(* APIKeyMiddleware.track_usage (middleware.py 86-101): update_item adds   *)
(* tokens_used to usage_count and sets last_usage; only ClientError is     *)
(* caught.                                                                 *)
(***************************************************************************)
track_api_usage(table, k, tokens_used, t, updateOutcome) ==
    IF updateOutcome = "ok"
    THEN [exc |-> "none", success |-> TRUE,
          table |-> [table EXCEPT ![k].present = TRUE,
                                  ![k].usage_count = @ + tokens_used,
                                  ![k].last_usage = t]]
    ELSE IF updateOutcome = "ClientError"
    THEN [exc |-> "none", success |-> FALSE, table |-> table]
    ELSE [exc |-> updateOutcome, success |-> FALSE, table |-> table]

track_usage(service, table, k, t, updateOutcome) ==
    IF service = "None"
    THEN [exc |-> "none", success |-> FALSE, table |-> table]
    ELSE track_api_usage(table, k, 1, t, updateOutcome)

(***************************************************************************)
(* APIKeyMiddleware.get_rate_limits (middleware.py 103-116) over           *)
(* SUBSCRIPTION_PLANS (billing.py 382-437).                                *)
(***************************************************************************)
PlanNames == {"basic", "professional", "enterprise"}

PlanRateLimit(plan) ==
    CASE plan = "basic" -> BasicRateLimit
      [] plan = "professional" -> ProRateLimit
      [] plan = "enterprise" -> EntRateLimit

get_rate_limits(subscription_plan) ==
    IF subscription_plan \in PlanNames
    THEN PlanRateLimit(subscription_plan)
    ELSE PlanRateLimit("basic")

(***************************************************************************)
(* APIKeyMiddleware.create_error_response (middleware.py 118-149)          *)
(***************************************************************************)
ErrorHeaders ==
    [x \in {"Content-Type", "Access-Control-Allow-Origin",
            "Access-Control-Allow-Headers", "Access-Control-Allow-Methods"} |->
        CASE x = "Content-Type" -> "application/json"
          [] x = "Access-Control-Allow-Origin" -> "*"
          [] x = "Access-Control-Allow-Headers" ->
                "Content-Type,X-Amz-Date,Authorization,X-Api-Key,X-Amz-Security-Token"
          [] x = "Access-Control-Allow-Methods" -> "GET,POST,OPTIONS"]

ErrorLabel(status_code) ==
    IF status_code = 401 THEN "Authentication Failed" ELSE "Authorization Failed"

create_error_response(status_code, error_message, details, t) ==
    [statusCode |-> status_code,
     headers |-> ErrorHeaders,
     body |-> Update([error |-> ErrorLabel(status_code), message |-> error_message,
                      timestamp |-> t, service |-> "remote-mcp-server"],
                     details)]

(***************************************************************************)
(* require_api_key's wrapper (middleware.py 164-215)                       *)
(***************************************************************************)
MsgKeyRequired == "API key required. Include X-API-Key header or Authorization: Bearer token."
MsgRateLimited == "Rate limit exceeded. Please reduce request frequency."
MsgInternal == "Internal server error occurred"

\* 'expired' in reason.lower() or 'ended' in reason.lower(), over the reasons
\* validation produces
MentionsExpiredOrEnded(reason) ==
    reason \in {ReasonPeriodEnded, ReasonStatus("incomplete_expired")}

StatusForReason(reason) == IF MentionsExpiredOrEnded(reason) THEN 403 ELSE 401

\* The early return on a missing key is lost: validation runs without a key.
StageAfter_NoKeyCheck(stage, ok, track_enabled) ==
    CASE stage = "extract" -> "validate"
      [] stage = "validate" ->
            IF ~ok THEN "done" ELSE IF track_enabled THEN "track" ELSE "call"
      [] stage = "track" -> IF ok THEN "call" ELSE "done"
      [] stage = "call" -> "done"

\* The early return on an invalid verdict is lost.
StageAfter_IgnoreValidity(stage, ok, track_enabled) ==
    CASE stage = "extract" -> IF ok THEN "validate" ELSE "done"
      [] stage = "validate" -> IF track_enabled THEN "track" ELSE "call"
      [] stage = "track" -> IF ok THEN "call" ELSE "done"
      [] stage = "call" -> "done"

\* Usage is tracked after the downstream call instead of before it.
StageAfter_TrackAfterCall(stage, ok, track_enabled) ==
    CASE stage = "extract" -> IF ok THEN "validate" ELSE "done"
      [] stage = "validate" -> IF ~ok THEN "done" ELSE "call"
      [] stage = "track" -> "done"
      [] stage = "call" -> IF track_enabled THEN "track" ELSE "done"

\* Where the wrapper goes after a stage; ok: a key was extracted / validation
\* returned valid / tracking returned.
StageAfter(stage, ok, track_enabled) ==
    CASE stage = "extract" -> IF ok THEN "validate" ELSE "done"
      [] stage = "validate" ->
            IF ~ok THEN "done" ELSE IF track_enabled THEN "track" ELSE "call"
      [] stage = "track" -> IF ok THEN "call" ELSE "done"
      [] stage = "call" -> "done"

\* lines 165-177: middleware = APIKeyMiddleware(); api_key = extract_api_key(event)
wrapper_extract(headers, track_enabled, rate_limited) ==
    LET key == extract_api_key(headers)
    IN  /\ pc = "idle"
        /\ nreq < MaxRequests
        /\ nreq' = nreq + 1
        /\ cfg' = [track_usage |-> track_enabled, rate_limited |-> rate_limited]
        /\ api_key' = key
        /\ usage0' = [k \in Keys |-> subscription_table[k].usage_count]
        /\ response' = IF key = NoKey
                       THEN create_error_response(401, MsgKeyRequired,
                                [hint |-> "Get your API key from the subscription dashboard"],
                                now)
                       ELSE NoResponse
        /\ pc' = StageAfter("extract", key # NoKey, track_enabled)
        /\ validation' = NoValidation
        /\ event' = NoEvent
        /\ raised' = "none"
        /\ log' = << >>
        /\ fault' = NoFault
        /\ UNCHANGED <<now, edgeVars, limiterVars, seqVars, concVars, storeVars>>

\* Which collaborators validation reached, and how each of them behaved.
Called(made, name) == \E i \in DOMAIN made : made[i] = name

FaultsOf(f, made, getOutcome, stripeOutcome, updateOutcome) ==
    [f EXCEPT !.get = IF Called(made, "get_item") THEN getOutcome ELSE "none",
              !.stripe = IF Called(made, "retrieve") THEN stripeOutcome ELSE "none",
              !.update = IF Called(made, "update_item") THEN updateOutcome ELSE "none"]

\* lines 179-193: is_valid, validation_details = middleware.validate_subscription(api_key)
wrapper_validate(getOutcome, stripeOutcome, updateOutcome) ==
    LET v == validate_subscription(billing_service, subscription_table, stripe, api_key,
                                   now, getOutcome, stripeOutcome, updateOutcome)
        reason == Get(v.details, "reason", ReasonDefault)
    IN  /\ pc = "validate"
        /\ validation' = [is_valid |-> v.is_valid, details |-> v.details, calls |-> v.calls]
        /\ subscription_table' = v.table
        /\ fault' = FaultsOf(fault, v.calls, getOutcome, stripeOutcome, updateOutcome)
        /\ log' = Append(log, "validate")
        /\ response' = IF v.is_valid THEN response
                       ELSE create_error_response(StatusForReason(reason),
                                <<"Subscription validation failed: ", reason>>,
                                [subscription_status |-> Get(v.details, "status", "None")],
                                now)
        /\ pc' = StageAfter("validate", v.is_valid, cfg.track_usage)
        /\ UNCHANGED <<now, edgeVars, limiterVars, seqVars, concVars, stripe, billing_service, cfg,
                       api_key, event, raised, usage0, nreq>>

\* lines 195-200: success = middleware.track_usage(api_key, endpoint)
wrapper_track(updateOutcome) ==
    LET r == track_usage(billing_service, subscription_table, api_key, now, updateOutcome)
    IN  /\ pc = "track"
        /\ subscription_table' = r.table
        /\ log' = Append(log, "track")
        /\ fault' = [fault EXCEPT !.track = updateOutcome]
        /\ raised' = r.exc
        /\ pc' = StageAfter("track", r.exc = "none", cfg.track_usage)
        /\ UNCHANGED <<now, edgeVars, limiterVars, seqVars, concVars, stripe, billing_service, cfg,
                       api_key, validation, event, response, nreq, usage0>>

(***************************************************************************)
(* The downstream handler and with_rate_limiting's wrapper                 *)
(* (middleware.py 317-355).                                                *)
(***************************************************************************)
HandlerResponse ==
    [statusCode |-> 200,
     headers |-> ("Content-Type" :> "application/json"),
     body |-> [status |-> "success"]]

\* response['headers'].update({...}) with the str() of the three numbers
StampHeaders(resp, limit_info) ==
    [resp EXCEPT !.headers =
        Update(@, [x \in {"X-RateLimit-Limit", "X-RateLimit-Remaining", "X-RateLimit-Used"} |->
                      CASE x = "X-RateLimit-Limit" -> ToString(limit_info.rate_limit)
                        [] x = "X-RateLimit-Remaining" -> ToString(limit_info.remaining)
                        [] x = "X-RateLimit-Used" -> ToString(limit_info.current_count)])]

\* What calling func(event, context) gives: the exception it raises ("none" if it
\* returns), its response, and whether the limiter and the handler ran.
\* rate_limited: func is with_rate_limiting()(handler); otherwise the handler.
\* Without subscription or api_key in the event the limiter is skipped.
\* The variant below consults the limiter whenever the event has an api_key.
call_func_KeyOnly(rate_limited, details, k, rc, lr, t, handlerOutcome) ==
    LET plan_id == Get(details, "plan_id", "basic")
        r == is_rate_limited(rc, lr, k, get_rate_limits(plan_id), t)
        checked == rate_limited /\ k # NoKey
        limited == checked /\ r.info.limited
        resp == IF checked THEN StampHeaders(HandlerResponse, r.info)
                ELSE HandlerResponse
    IN  IF limited
        THEN [exc |-> "none", limiter |-> TRUE, handler |-> FALSE,
              response |-> create_error_response(429, MsgRateLimited,
                               [rate_limit |-> r.info, plan |-> plan_id], t)]
        ELSE IF handlerOutcome = "ok"
        THEN [exc |-> "none", limiter |-> checked, handler |-> TRUE, response |-> resp]
        ELSE [exc |-> handlerOutcome, limiter |-> checked, handler |-> TRUE,
              response |-> NoResponse]

call_func(rate_limited, details, k, rc, lr, t, handlerOutcome) ==
    LET plan_id == Get(details, "plan_id", "basic")
        r == is_rate_limited(rc, lr, k, get_rate_limits(plan_id), t)
        checked == rate_limited /\ DOMAIN details # {} /\ k # NoKey
        limited == checked /\ r.info.limited
        resp == IF checked THEN StampHeaders(HandlerResponse, r.info)
                ELSE HandlerResponse
    IN  IF limited
        THEN [exc |-> "none", limiter |-> TRUE, handler |-> FALSE,
              response |-> create_error_response(429, MsgRateLimited,
                               [rate_limit |-> r.info, plan |-> plan_id], t)]
        ELSE IF handlerOutcome = "ok"
        THEN [exc |-> "none", limiter |-> checked, handler |-> TRUE, response |-> resp]
        ELSE [exc |-> handlerOutcome, limiter |-> checked, handler |-> TRUE,
              response |-> NoResponse]

\* The try/except around the call is missing.
CaughtByWrapper_Nothing(exc) == FALSE

\* except Exception as e: ... (lines 209-215); anything else leaves the wrapper
CaughtByWrapper(exc) == exc = "Exception"

\* lines 202-215: attach the context, call func, convert its exception
wrapper_call(handlerOutcome) ==
    LET c == call_func(cfg.rate_limited, validation.details, api_key,
                       request_counts, last_reset, now, handlerOutcome)
    IN  /\ pc = "call"
        /\ event' = [api_key |-> api_key, subscribed |-> TRUE]
        /\ IF c.limiter
           THEN LimiterCall(api_key, get_rate_limits(Get(validation.details, "plan_id", "basic")))
           ELSE UNCHANGED <<limiterVars, ret, winStart, winCalls, winLimit>>
        /\ log' = log \o (IF c.limiter THEN <<"limiter">> ELSE << >>)
                      \o (IF c.handler THEN <<"handler">> ELSE << >>)
        /\ fault' = [fault EXCEPT !.handler = IF c.handler THEN handlerOutcome ELSE "none"]
        /\ response' = IF c.exc = "none" THEN c.response
                       ELSE IF CaughtByWrapper(c.exc)
                       THEN create_error_response(500, MsgInternal,
                                                  [error_type |-> c.exc], now)
                       ELSE NoResponse
        /\ raised' = IF c.exc # "none" /\ ~CaughtByWrapper(c.exc) THEN c.exc ELSE "none"
        /\ pc' = StageAfter("call", TRUE, cfg.track_usage)
        /\ UNCHANGED <<now, edgeVars, calls, concVars, storeVars, cfg, api_key,
                       validation, usage0, nreq>>

\* The response (or the exception) has reached the caller.
wrapper_return ==
    /\ pc = "done"
    /\ pc' = "idle"
    /\ cfg' = NoCfg
    /\ api_key' = NoKey
    /\ validation' = NoValidation
    /\ event' = NoEvent
    /\ response' = NoResponse
    /\ raised' = "none"
    /\ log' = << >>
    /\ fault' = NoFault
    /\ usage0' = [k \in Keys |-> subscription_table[k].usage_count]
    /\ UNCHANGED nreq
    /\ UNCHANGED <<now, edgeVars, limiterVars, seqVars, concVars, storeVars>>

\* The billing provider changes the subscription's status.
BillingChange(k, status) ==
    /\ pc = "idle"
    /\ stripe[SubscriptionOf(k)].status # status
    /\ stripe' = [stripe EXCEPT ![SubscriptionOf(k)].status = status]
    /\ UNCHANGED <<now, edgeVars, limiterVars, seqVars, concVars, subscription_table,
                   billing_service, reqVars>>

wrapper_extractAny ==
    \E headers \in RequestHeaders, track_enabled \in BOOLEAN, rate_limited \in BOOLEAN :
        wrapper_extract(headers, track_enabled, rate_limited)
wrapper_validateAny ==
    \E g \in GetOutcomes, s \in StripeOutcomes, u \in UpdateOutcomes :
        \* a collaborator that is not reached has no outcome to choose
        /\ g # "ok" => s = "ok"
        /\ s # "ok" => u = "ok"
        /\ wrapper_validate(g, s, u)
wrapper_trackAny == \E u \in UpdateOutcomes : wrapper_track(u)
wrapper_callAny == \E h \in HandlerOutcomes : wrapper_call(h)
BillingChangeAny ==
    \E k \in StoredKeys, status \in Statuses : BillingChange(k, status)

NextAuth ==
    \/ Tick
    \/ BillingChangeAny
    \/ wrapper_extractAny
    \/ wrapper_validateAny
    \/ wrapper_trackAny
    \/ wrapper_callAny
    \/ wrapper_return
SpecAuth == Init /\ [][NextAuth]_vars

(***************************************************************************)
(* What the request has done so far.                                       *)
(***************************************************************************)
InLog(x) == \E i \in DOMAIN log : log[i] = x
FuncCalled == InLog("limiter") \/ InLog("handler")
UsageCount(k) == subscription_table[k].usage_count
HasErrorCode(resp, code) ==
    /\ "body" \in DOMAIN resp
    /\ "error_code" \in DOMAIN resp.body
    /\ resp.body.error_code = code
NoErrorCode(resp) == "body" \in DOMAIN resp /\ "error_code" \notin DOMAIN resp.body
Reason == Get(validation.details, "reason", ReasonDefault)

(***************************************************************************)
(* C4: in require_api_key neither usage tracking nor the handler runs      *)
(* unless validate_subscription has returned valid for the same request;   *)
(* a request without a key or failing validation increments no usage       *)
(* counter and does not reach the handler.                                 *)
(***************************************************************************)
C4_ValidBeforeTrackAndHandler ==
    /\ (InLog("track") \/ FuncCalled) =>
          (validation.is_valid /\ log[1] = "validate" /\ api_key # NoKey)
    /\ ~validation.is_valid =>
          (/\ \A k \in Keys : UsageCount(k) = usage0[k]
           /\ ~InLog("track")
           /\ ~FuncCalled)

C4_Witness ==
    /\ pc = "done"
    /\ validation.is_valid
    /\ log = <<"validate", "track", "handler">>
    /\ UsageCount(api_key) = usage0[api_key] + 1

ExpiredOrInactiveReasons ==
    {ReasonPeriodEnded} \cup {ReasonStatus(st) : st \in Statuses \ ActiveStatuses}

C6_ForbiddenIffExpiredOrInactive ==
    (pc = "done" /\ log = <<"validate">> /\ ~validation.is_valid) =>
        /\ response.statusCode \in {401, 403}
        /\ (response.statusCode = 403) = (Reason \in ExpiredOrInactiveReasons)

C9_TrackFailureSwallowed ==
    (InLog("track") /\ fault.track # "ok") =>
        /\ pc # "done" => raised = "none"
        /\ pc = "done" =>
              /\ FuncCalled
              /\ fault.handler = "none" => raised = "none"
              /\ fault.handler = "ok" => (raised = "none" /\ response.statusCode = 200)

OptionalStageAfter_Blocking(stage, ok) ==
    CASE stage = "extract" -> IF ok THEN "validate" ELSE "call"
      [] stage = "validate" -> IF ok THEN "call" ELSE "done"
      [] stage = "call" -> "done"

\* Where the wrapper goes after a stage; ok: a key was extracted / validation
\* returned valid.
OptionalStageAfter(stage, ok) ==
    CASE stage = "extract" -> IF ok THEN "validate" ELSE "call"
      [] stage = "validate" -> "call"
      [] stage = "call" -> "done"

\* lines 231-237: middleware = APIKeyMiddleware(); api_key = extract_api_key(event)
optional_extract(headers) ==
    LET key == extract_api_key(headers)
    IN  /\ pc = "idle"
        /\ nreq < MaxRequests
        /\ nreq' = nreq + 1
        /\ cfg' = NoCfg
        /\ api_key' = key
        /\ usage0' = [k \in Keys |-> subscription_table[k].usage_count]
        /\ response' = NoResponse
        /\ pc' = OptionalStageAfter("extract", key # NoKey)
        /\ validation' = NoValidation
        /\ event' = NoEvent
        /\ raised' = "none"
        /\ log' = << >>
        /\ fault' = NoFault
        /\ UNCHANGED <<now, edgeVars, limiterVars, seqVars, concVars, storeVars>>

\* lines 238-246: validate; on success put subscription and api_key in the event
optional_validate(getOutcome, stripeOutcome, updateOutcome) ==
    LET v == validate_subscription(billing_service, subscription_table, stripe, api_key,
                                   now, getOutcome, stripeOutcome, updateOutcome)
    IN  /\ pc = "validate"
        /\ validation' = [is_valid |-> v.is_valid, details |-> v.details, calls |-> v.calls]
        /\ subscription_table' = v.table
        /\ fault' = FaultsOf(fault, v.calls, getOutcome, stripeOutcome, updateOutcome)
        /\ log' = Append(log, "validate")
        /\ event' = IF v.is_valid THEN [api_key |-> api_key, subscribed |-> TRUE] ELSE event
        /\ pc' = OptionalStageAfter("validate", v.is_valid)
        /\ UNCHANGED <<now, edgeVars, limiterVars, seqVars, concVars, stripe, billing_service,
                       cfg, api_key, response, raised, usage0, nreq>>

\* lines 248-249: return func(event, context); nothing is caught
optional_call(handlerOutcome) ==
    LET c == call_func(FALSE, validation.details, event.api_key,
                       request_counts, last_reset, now, handlerOutcome)
    IN  /\ pc = "call"
        /\ log' = Append(log, "handler")
        /\ fault' = [fault EXCEPT !.handler = handlerOutcome]
        /\ response' = c.response
        /\ raised' = c.exc
        /\ pc' = OptionalStageAfter("call", TRUE)
        /\ UNCHANGED <<now, edgeVars, limiterVars, seqVars, concVars, storeVars, cfg, api_key,
                       validation, event, usage0, nreq>>

optional_extractAny == \E headers \in RequestHeaders : optional_extract(headers)
optional_validateAny ==
    \E g \in GetOutcomes, s \in StripeOutcomes, u \in UpdateOutcomes :
        /\ g # "ok" => s = "ok"
        /\ s # "ok" => u = "ok"
        /\ optional_validate(g, s, u)
optional_callAny == \E h \in HandlerOutcomes : optional_call(h)

NextOptional ==
    \/ Tick
    \/ BillingChangeAny
    \/ optional_extractAny
    \/ optional_validateAny
    \/ optional_callAny
    \/ wrapper_return
SpecOptional == Init /\ [][NextOptional]_vars

\* How many times x has been called for this request.
TimesInLog(x) == Cardinality({i \in DOMAIN log : log[i] = x})

(***************************************************************************)
(* C11: optional_api_key never blocks: whether the request has no key, a   *)
(* valid key, an invalid key, or validation fails in a collaborator, the   *)
(* handler is invoked exactly once, what the wrapper returns is what the   *)
(* handler returned (never an authentication error of its own), and the    *)
(* handler sees subscription and api_key in the event only when a key was  *)
(* present and validated successfully in this same request.                *)
(***************************************************************************)
C11_OptionalNeverBlocks ==
    /\ TimesInLog("handler") <= 1
    /\ pc = "done" =>
          /\ TimesInLog("handler") = 1
          /\ response.statusCode \notin {401, 403}
          /\ fault.handler = "ok" => (response = HandlerResponse /\ raised = "none")
          /\ fault.handler # "ok" => (response = NoResponse /\ raised = fault.handler)
    /\ (event.subscribed \/ event.api_key # NoKey) =>
          /\ api_key # NoKey
          /\ event.api_key = api_key
          /\ event.subscribed
          /\ validation.is_valid
          /\ log[1] = "validate"
    /\ (InLog("validate") /\ validation.is_valid) => event.subscribed

C11_Witness ==
    /\ pc = "done"
    /\ api_key # NoKey
    /\ ~validation.is_valid
    /\ fault.stripe = "Exception"
    /\ log = <<"validate", "handler">>
    /\ response = HandlerResponse
    /\ ~event.subscribed

(***************************************************************************)
(* C12: validation of an API key that has no item in the subscriptions     *)
(* table returns valid = False with the not-found reason, calls nothing    *)
(* but the table lookup (Stripe is not asked) and writes nothing to the    *)
(* table.                                                                  *)
(***************************************************************************)
C12_NotFoundTouchesNothing ==
    [][(/\ pc = "validate"
        /\ pc' # "validate"
        /\ billing_service = "ok"
        /\ ~subscription_table[api_key].present)
       => (/\ validation'.calls = <<"get_item">>
           /\ subscription_table' = subscription_table
           /\ stripe' = stripe
           /\ ~validation'.is_valid
           /\ fault'.get # "Exception" =>
                 validation'.details = [valid |-> FALSE, reason |-> ReasonNotFound])]_vars

C12_Witness ==
    /\ pc = "done"
    /\ api_key \notin StoredKeys
    /\ fault.get = "ok"
    /\ validation.calls = <<"get_item">>
    /\ validation.details = [valid |-> FALSE, reason |-> ReasonNotFound]
    /\ response.statusCode = 401

(***************************************************************************)
(* What validation had before it for the request in progress.              *)
(***************************************************************************)
Stored == subscription_table[api_key]
Authoritative == stripe[Stored.subscription_id]
\* the table lookup found the item and Stripe answered
LookedUp == InLog("validate") /\ fault.get = "ok" /\ Stored.present /\ fault.stripe = "ok"

(***************************************************************************)
(* C13: for a stored subscription whose authoritative status is active or  *)
(* trialing, validated before its period_end, validation returns           *)
(* valid = True with the stored customer_id, subscription_id and plan_id   *)
(* and the authoritative status.                                           *)
(***************************************************************************)
C13_ActiveUnexpiredIsValid ==
    (/\ LookedUp
     /\ Authoritative.status \in ActiveStatuses
     /\ now < Stored.current_period_end)
    => /\ validation.is_valid
       /\ validation.details =
             [valid |-> TRUE, customer_id |-> Stored.customer_id,
              subscription_id |-> Stored.subscription_id,
              plan_id |-> Stored.plan_id, status |-> Authoritative.status]

(***************************************************************************)
(* C14: for a subscription validated at or after its stored period_end     *)
(* (the instant now = period_end included), validation returns             *)
(* valid = False with the period-ended reason, whatever the authoritative  *)
(* status is.                                                              *)
(***************************************************************************)
C14_ExpiredWhateverStatus ==
    (LookedUp /\ now >= Stored.current_period_end)
    => (~validation.is_valid /\ Reason = ReasonPeriodEnded)

(***************************************************************************)
(* C15: when the Stripe status lookup of a validation fails with any       *)
(* exception, validate_subscription returns an invalid verdict whose       *)
(* reason is the service-unavailable one, no exception leaves it, and the  *)
(* stored subscription is left as it was.                                  *)
(***************************************************************************)
C15_LookupFailureIsVerdict ==
    [][(/\ pc = "validate"
        /\ pc' # "validate"
        /\ fault'.stripe \notin {"none", "ok"})
       => (/\ ~validation'.is_valid
           /\ raised' = "none"
           /\ subscription_table' = subscription_table
           /\ Get(validation'.details, "reason", "") = ReasonStripeError)]_vars

(***************************************************************************)
(* C16: when the authoritative status differs from the stored one and the  *)
(* table update fails, validation still returns the verdict that the       *)
(* authoritative status and the period imply: valid = True for an active   *)
(* or trialing subscription whose period has not ended.                    *)
(***************************************************************************)
C16_PersistIsBestEffort ==
    (LookedUp /\ fault.update \notin {"none", "ok"})
    => (validation.is_valid =
           (/\ Authoritative.status \in ActiveStatuses
            /\ ~PeriodEnded(Authoritative.current_period_end, now)))

(***************************************************************************)
(* C17: no verdict is reused across requests: every request through        *)
(* require_api_key whose key has a stored item asks Stripe for the status  *)
(* again, so once Stripe reports a status outside active/trialing the very *)
(* next request with that key is rejected (401 or 403), records no usage   *)
(* and does not reach the downstream handler, also when the same key was   *)
(* accepted by the request before.                                         *)
(***************************************************************************)
C17_FreshLookupEveryRequest ==
    /\ (InLog("validate") /\ fault.get = "ok" /\ Stored.present) =>
          Called(validation.calls, "retrieve")
    /\ (/\ InLog("validate")
        /\ Stored.present
        /\ Authoritative.status \notin ActiveStatuses)
       => /\ ~validation.is_valid
          /\ pc = "done"
          /\ response.statusCode \in {401, 403}
          /\ ~InLog("track")
          /\ ~FuncCalled
          /\ UsageCount(api_key) = usage0[api_key]

C17_Witness ==
    /\ pc = "done"
    /\ InLog("validate")
    /\ Stored.present
    /\ Stored.usage_count > 0
    /\ Authoritative.status = "canceled"
    /\ Called(validation.calls, "retrieve")
    /\ fault.stripe = "ok"
    /\ response.statusCode = 401

(***************************************************************************)
(* SubscriptionBillingService.cancel_subscription (billing.py 260-327):    *)
(* Stripe cancels the subscription, then the stored status is set to the   *)
(* cancelled one; every failure becomes {'success': False}. Disabling the  *)
(* API Gateway key (282-303) touches neither the table nor Stripe.         *)
(***************************************************************************)
cancel_subscription(table, billing, k, getOutcome, stripeOutcome, updateOutcome) ==
    LET subscription == get_subscription_by_api_key(table, k, getOutcome)
        cancelled == [billing EXCEPT ![subscription.subscription_id].status = "canceled"]
    IN  IF getOutcome = "Exception" \/ ~subscription.present
        THEN [success |-> FALSE, table |-> table, billing |-> billing]
        ELSE IF stripeOutcome # "ok"
        THEN [success |-> FALSE, table |-> table, billing |-> billing]
        ELSE IF updateOutcome # "ok"
        THEN [success |-> FALSE, table |-> table, billing |-> cancelled]
        ELSE [success |-> TRUE, billing |-> cancelled,
              table |-> [table EXCEPT ![k].status = "canceled"]]

(***************************************************************************)
(* LambdaHandler._handle_subscription_request (aws_lambda.py 579-614) and  *)
(* the decorated methods it calls (706-792). A call binds when it passes   *)
(* as many positional arguments as the callee has parameters; otherwise    *)
(* Python raises TypeError at the call.                                    *)
(***************************************************************************)
WrapperParams == <<"event", "context">>            \* def wrapper(event, context)
MethodParams == <<"self", "event", "context">>     \* def _update_usage(self, event, context)
BoundCallArgs == <<"self", "event", "context">>    \* self._update_usage(event, context)
WrapperCallArgs == <<"event", "context">>          \* func(event, context)
Binds(args, params) == Len(args) = Len(params)

AdminOps == {"usage", "cancel", "other"}   \* POST /subscription/usage, /cancel, anything else
TokensUsed == {-1, 1, 2}                   \* body_data.get("tokens_used", 1)

\* The billing operation of the endpoint, as the body of the method runs it.
admin_operation(op, table, billing, k, tokens_used, t, opOutcome) ==
    IF op = "usage"
    THEN LET r == track_api_usage(table, k, tokens_used, t, opOutcome)
         IN  [statusCode |-> IF r.success THEN 200 ELSE 500,
              error_code |-> IF r.success THEN ""
                             ELSE IF r.exc = "none" THEN "USAGE_TRACKING_FAILED"
                             ELSE "USAGE_UPDATE_ERROR",
              ran |-> TRUE, table |-> r.table, billing |-> billing]
    ELSE LET r == cancel_subscription(table, billing, k, "ok", "ok", opOutcome)
         IN  [statusCode |-> IF r.success THEN 200 ELSE 400,
              error_code |-> IF r.success THEN "" ELSE "SUBSCRIPTION_CANCELLATION_FAILED",
              ran |-> TRUE, table |-> r.table, billing |-> r.billing]

\* What the request gets and leaves behind.
subscription_request(op, headers, tokens_used, service, table, billing, t, getOutcome, stripeOutcome, updateOutcome, opOutcome) ==
    LET key == extract_api_key(headers)
        v == validate_subscription(service, table, billing, key, t,
                                   getOutcome, stripeOutcome, updateOutcome)
        untouched == [ran |-> FALSE, table |-> table, billing |-> billing]
    IN  IF service = "None"
        THEN [statusCode |-> 503, error_code |-> "BILLING_SERVICE_ERROR"] @@ untouched
        ELSE IF op = "other"
        THEN [statusCode |-> 404, error_code |-> "ENDPOINT_NOT_FOUND"] @@ untouched
        ELSE IF ~Binds(BoundCallArgs, WrapperParams)
        THEN [statusCode |-> 500, error_code |-> "SUBSCRIPTION_ERROR"] @@ untouched
        ELSE IF key = NoKey
        THEN [statusCode |-> 401, error_code |-> ""] @@ untouched
        ELSE IF ~v.is_valid
        THEN [statusCode |-> StatusForReason(Get(v.details, "reason", ReasonDefault)),
              error_code |-> "", ran |-> FALSE, table |-> v.table, billing |-> billing]
        ELSE IF ~Binds(WrapperCallArgs, MethodParams)
        THEN [statusCode |-> 500, error_code |-> "", ran |-> FALSE,
              table |-> v.table, billing |-> billing]
        ELSE admin_operation(op, v.table, billing, key, tokens_used, t, opOutcome)

\* The request carries an API key that validates.
CarriesValidKey(headers) ==
    /\ extract_api_key(headers) # NoKey
    /\ validate_subscription("ok", subscription_table, stripe, extract_api_key(headers),
                             now, "ok", "ok", "ok").is_valid

handle_subscription_request(op, headers, tokens_used, g, s, u, o) ==
    LET r == subscription_request(op, headers, tokens_used, billing_service,
                                  subscription_table, stripe, now, g, s, u, o)
    IN  /\ pc = "idle"
        /\ admin.n < MaxAdminCalls
        /\ admin' = [op |-> op, valid_key |-> CarriesValidKey(headers), ran |-> r.ran,
                     statusCode |-> r.statusCode, error_code |-> r.error_code,
                     n |-> admin.n + 1]
        /\ subscription_table' = r.table
        /\ stripe' = r.billing
        /\ UNCHANGED <<now, rpc, http, limiterVars, seqVars, concVars, billing_service, reqVars>>

\* The body of _update_usage (aws_lambda.py 709-750) on an event that holds
\* api_key: tokens_used comes from the request body and goes to track_api_usage
\* as it is.
update_usage_body(k, tokens_used, opOutcome) ==
    LET r == admin_operation("usage", subscription_table, stripe, k, tokens_used, now,
                             opOutcome)
    IN  /\ pc = "idle"
        /\ billing_service = "ok"
        /\ admin.n < MaxAdminCalls
        /\ admin' = [NoAdmin EXCEPT !.n = admin.n + 1]
        /\ subscription_table' = r.table
        /\ UNCHANGED <<now, rpc, http, limiterVars, seqVars, concVars, stripe, billing_service,
                       reqVars>>

\* The body of _cancel_subscription (aws_lambda.py 755-792) on an event that
\* holds api_key.
cancel_subscription_body(k, opOutcome) ==
    LET r == admin_operation("cancel", subscription_table, stripe, k, 1, now, opOutcome)
    IN  /\ pc = "idle"
        /\ billing_service = "ok"
        /\ admin.n < MaxAdminCalls
        /\ admin' = [NoAdmin EXCEPT !.n = admin.n + 1]
        /\ subscription_table' = r.table
        /\ stripe' = r.billing
        /\ UNCHANGED <<now, rpc, http, limiterVars, seqVars, concVars, billing_service, reqVars>>

handle_subscription_requestAny ==
    \E op \in AdminOps, headers \in RequestHeaders, tokens_used \in TokensUsed,
       o \in UpdateOutcomes :
        handle_subscription_request(op, headers, tokens_used, "ok", "ok", "ok", o)
update_usage_bodyAny ==
    \E k \in StoredKeys, tokens_used \in TokensUsed, o \in UpdateOutcomes :
        update_usage_body(k, tokens_used, o)
cancel_subscription_bodyAny ==
    \E k \in StoredKeys, o \in UpdateOutcomes : cancel_subscription_body(k, o)

NextAdmin ==
    \/ BillingChangeAny
    \/ wrapper_extractAny
    \/ wrapper_validateAny
    \/ wrapper_trackAny
    \/ wrapper_callAny
    \/ wrapper_return
    \/ handle_subscription_requestAny
    \/ update_usage_bodyAny
    \/ cancel_subscription_bodyAny
SpecAdmin == Init /\ [][NextAdmin]_vars

C19_AdminRunsIffValidKey ==
    (admin.op \in {"usage", "cancel"} /\ billing_service = "ok")
    => (admin.ran = admin.valid_key)

(***************************************************************************)
(* JSON-RPC dispatch: LambdaHandler._process_mcp_request                   *)
(* (aws_lambda.py 306-446) and handle_mcp_request (mcp_server.py 520-625). *)
(* A request is a dict with any of the keys jsonrpc, method, id, params;   *)
(* JSON null is "None".                                                    *)
(***************************************************************************)
Missing == "<missing>"                      \* the key is not in the dict
JsonrpcValues == {Missing, "2.0", "1.0"}
MethodValues == {Missing, "", "ping", "tools/list", "tools/call", "resources/list"}
IdValues == {Missing, "None", "7"}
ParamsValues ==
    {Missing, "None", "[]", "{}", "{name: ''}", "{name: 'echo_message'}",
     "{name: 'no_such_tool'}"}

RpcRequest(j, m, i, p) ==
    LET field(x) == CASE x = "jsonrpc" -> j [] x = "method" -> m
                      [] x = "id" -> i [] x = "params" -> p
    IN  [x \in {y \in {"jsonrpc", "method", "id", "params"} : field(y) # Missing} |-> field(x)]

RpcRequests ==
    {RpcRequest(j, m, i, p) :
        j \in JsonrpcValues, m \in MethodValues, i \in IdValues, p \in ParamsValues}

IsDict(params) ==
    params \in {"{}", "{name: ''}", "{name: 'echo_message'}", "{name: 'no_such_tool'}"}
\* params.get("name") of a dict; "None" when the key is absent
ToolName(params) ==
    CASE params = "{name: ''}" -> ""
      [] params = "{name: 'echo_message'}" -> "echo_message"
      [] params = "{name: 'no_such_tool'}" -> "no_such_tool"
      [] OTHER -> "None"
\* params.get("name") is truthy
HasToolName(params) == IsDict(params) /\ ToolName(params) \notin {"None", ""}

\* the tool catalogue that tools/list answers with
RegisteredTools ==
    <<"hello_world", "get_current_time", "echo_message", "get_server_info",
      "calculate_sum">>

\* The methods the dispatcher resolves; the first definition is a dispatcher
\* that lets resources/list through to the method branches.
ImplementedMethods_WithResources == {"tools/list", "tools/call", "ping", "resources/list"}

ImplementedMethods == {"tools/list", "tools/call", "ping"}
\* the list the -32601 error reports
available_methods == <<"tools/list", "tools/call", "ping">>

\* An error response that carries a null result next to the error.
RpcError_WithResult(code, message, data, request_id) ==
    [jsonrpc |-> "2.0", error |-> [code |-> code, message |-> message, data |-> data],
     result |-> "None", id |-> request_id]

RpcError(code, message, data, request_id) ==
    [jsonrpc |-> "2.0", error |-> [code |-> code, message |-> message, data |-> data],
     id |-> request_id]

RpcResult(result, request_id) ==
    [jsonrpc |-> "2.0", result |-> result, id |-> request_id]

\* The response, and the method branch that ran ("none" when the request was
\* answered before any branch).
\* The variant below checks the id before the version and the method.
_process_mcp_request_IdFirst(data) ==
    LET request_id == Get(data, "id", "None")
        method == Get(data, "method", "None")
        params == Get(data, "params", "{}")
        answered(r) == [response |-> r, handler |-> "none"]
    IN  IF request_id = "None"
        THEN answered(RpcError(-32600, "Invalid Request", [details |-> "id"], "None"))
        ELSE IF Get(data, "jsonrpc", Missing) # "2.0"
        THEN answered(RpcError(-32600, "Invalid Request",
                               [details |-> "jsonrpc"], request_id))
        ELSE IF method \in {"None", ""}
        THEN answered(RpcError(-32600, "Invalid Request",
                               [details |-> "method"], request_id))
        ELSE IF method \notin ImplementedMethods
        THEN answered(RpcError(-32601, "Method not found",
                               [method |-> method,
                                available_methods |-> available_methods], request_id))
        ELSE IF method = "ping"
        THEN [response |-> RpcResult([status |-> "pong"], request_id),
              handler |-> "ping"]
        ELSE IF method = "tools/list"
        THEN [response |-> RpcResult([tools |-> RegisteredTools], request_id),
              handler |-> "tools/list"]
        ELSE IF method = "tools/call"
        THEN \* params.get raises AttributeError when params is no dict
             IF ~IsDict(params)
             THEN [response |-> RpcError(-32603, "Internal error",
                                         [method |-> method], request_id),
                   handler |-> "tools/call"]
             ELSE IF ~HasToolName(params)
             THEN [response |-> RpcError(-32602, "Invalid params",
                                         [required_params |-> <<"name">>], request_id),
                   handler |-> "tools/call"]
             ELSE [response |-> RpcResult([status |-> "success",
                                           message |-> ToolName(params)], request_id),
                   handler |-> "tools/call"]
        ELSE [response |-> RpcResult([status |-> "success", message |-> "processed"],
                                     request_id),
              handler |-> "other"]

_process_mcp_request(data) ==
    LET request_id == Get(data, "id", "None")
        method == Get(data, "method", "None")
        params == Get(data, "params", "{}")
        answered(r) == [response |-> r, handler |-> "none"]
    IN  IF Get(data, "jsonrpc", Missing) # "2.0"
        THEN answered(RpcError(-32600, "Invalid Request",
                               [details |-> "jsonrpc"], request_id))
        ELSE IF method \in {"None", ""}
        THEN answered(RpcError(-32600, "Invalid Request",
                               [details |-> "method"], request_id))
        ELSE IF request_id = "None"
        THEN answered(RpcError(-32600, "Invalid Request", [details |-> "id"], "None"))
        ELSE IF method \notin ImplementedMethods
        THEN answered(RpcError(-32601, "Method not found",
                               [method |-> method,
                                available_methods |-> available_methods], request_id))
        ELSE IF method = "ping"
        THEN [response |-> RpcResult([status |-> "pong"], request_id),
              handler |-> "ping"]
        ELSE IF method = "tools/list"
        THEN [response |-> RpcResult([tools |-> RegisteredTools], request_id),
              handler |-> "tools/list"]
        ELSE IF method = "tools/call"
        THEN \* params.get raises AttributeError when params is no dict
             IF ~IsDict(params)
             THEN [response |-> RpcError(-32603, "Internal error",
                                         [method |-> method], request_id),
                   handler |-> "tools/call"]
             ELSE IF ~HasToolName(params)
             THEN [response |-> RpcError(-32602, "Invalid params",
                                         [required_params |-> <<"name">>], request_id),
                   handler |-> "tools/call"]
             ELSE [response |-> RpcResult([status |-> "success",
                                           message |-> ToolName(params)], request_id),
                   handler |-> "tools/call"]
        ELSE [response |-> RpcResult([status |-> "success", message |-> "processed"],
                                     request_id),
              handler |-> "other"]

\* logOutcome: how the logging calls inside the try block behave
LogOutcomes == {"ok", "Exception"}

handle_mcp_request(request_data, logOutcome) ==
    LET request_id == Get(request_data, "id", "unknown")
        method == Get(request_data, "method", "unknown")
        params == Get(request_data, "params", "{}")
    IN  IF logOutcome # "ok"
        THEN RpcError(-32603, "Internal error", [error_type |-> "Exception"], request_id)
        ELSE IF method = "tools/call" /\ ~IsDict(params)
        THEN RpcError(-32603, "Internal error",
                      [error_type |-> "AttributeError"], request_id)
        ELSE RpcResult([status |-> "success", message |-> "processed"], request_id)

\* Both dispatchers keep no state between requests: a behaviour dispatches one
\* request.
process_mcp_request_step(data) ==
    /\ rpc.dispatcher = "none"
    /\ rpc' = [dispatcher |-> "_process_mcp_request", request |-> data,
               response |-> _process_mcp_request(data).response,
               handler |-> _process_mcp_request(data).handler]
    /\ UNCHANGED <<now, admin, http, limiterVars, seqVars, concVars, storeVars, reqVars>>

handle_mcp_request_step(data, logOutcome) ==
    /\ rpc.dispatcher = "none"
    /\ rpc' = [dispatcher |-> "handle_mcp_request", request |-> data,
               response |-> handle_mcp_request(data, logOutcome),
               handler |-> "none"]
    /\ UNCHANGED <<now, admin, http, limiterVars, seqVars, concVars, storeVars, reqVars>>

process_mcp_request_stepAny == \E data \in RpcRequests : process_mcp_request_step(data)
handle_mcp_request_stepAny ==
    \E data \in RpcRequests, l \in LogOutcomes : handle_mcp_request_step(data, l)

NextRpc == process_mcp_request_stepAny \/ handle_mcp_request_stepAny
SpecRpc == Init /\ [][NextRpc]_vars

(***************************************************************************)
(* C20: every response of _process_mcp_request and of handle_mcp_request   *)
(* has jsonrpc = "2.0" and exactly one of result and error, on every path: *)
(* invalid requests, unknown methods, bad params and caught exceptions     *)
(* included.                                                               *)
(***************************************************************************)
C20_ExactlyOneOfResultAndError ==
    rpc.dispatcher # "none" =>
        /\ "jsonrpc" \in DOMAIN rpc.response
        /\ rpc.response.jsonrpc = "2.0"
        /\ ("result" \in DOMAIN rpc.response) # ("error" \in DOMAIN rpc.response)
        /\ "id" \in DOMAIN rpc.response

C20_Witness ==
    /\ rpc.dispatcher = "_process_mcp_request"
    /\ Get(rpc.request, "method", "None") = "tools/call"
    /\ Get(rpc.request, "params", "{}") = "None"
    /\ "error" \in DOMAIN rpc.response
    /\ rpc.response.error.code = -32603

\* The dispatched request is a tools/call with valid version and a non-null id.
ValidEnvelope ==
    /\ rpc.dispatcher # "none"
    /\ Get(rpc.request, "jsonrpc", Missing) = "2.0"
    /\ Get(rpc.request, "id", "None") # "None"
IsError(code) ==
    /\ "error" \in DOMAIN rpc.response
    /\ rpc.response.error.code = code

(***************************************************************************)
(* C21: every JSON-RPC response carries the id of the request it answers,  *)
(* and null when the request has no id; result and error responses of      *)
(* _process_mcp_request and of handle_mcp_request alike.                   *)
(***************************************************************************)
C21_IdEchoedOrNull ==
    rpc.dispatcher # "none" =>
        /\ "id" \in DOMAIN rpc.response
        /\ rpc.response.id = Get(rpc.request, "id", "None")

(***************************************************************************)
(* C22: a request with valid version and id whose method is not one of     *)
(* tools/list, tools/call, ping is answered by _process_mcp_request with   *)
(* error -32601 whose data.available_methods is exactly                    *)
(* [tools/list, tools/call, ping], with the request id echoed, and no      *)
(* method branch has run.                                                  *)
(***************************************************************************)
C22_UnknownMethodIsMinus32601 ==
    (/\ ValidEnvelope
     /\ rpc.dispatcher = "_process_mcp_request"
     /\ Get(rpc.request, "method", "None") \notin
            {"None", "", "tools/list", "tools/call", "ping"})
    => /\ IsError(-32601)
       /\ "available_methods" \in DOMAIN rpc.response.error.data
       /\ rpc.response.error.data.available_methods = <<"tools/list", "tools/call", "ping">>
       /\ rpc.response.id = rpc.request.id
       /\ rpc.handler = "none"

C22_Witness ==
    /\ ValidEnvelope
    /\ rpc.dispatcher = "_process_mcp_request"
    /\ Get(rpc.request, "method", "None") = "resources/list"
    /\ rpc.request.id = "7"
    /\ IsError(-32601)
    /\ rpc.response.id = "7"

(***************************************************************************)
(* C23: every tools/call request with valid version, method and id whose   *)
(* params does not supply a non-empty name (params absent, an empty        *)
(* object, null, or of another shape) is answered by _process_mcp_request  *)
(* with error -32602.                                                      *)
(***************************************************************************)
C23_NoToolNameIsMinus32602 ==
    (/\ ValidEnvelope
     /\ rpc.dispatcher = "_process_mcp_request"
     /\ Get(rpc.request, "method", "None") = "tools/call"
     /\ ~HasToolName(Get(rpc.request, "params", "{}")))
    => IsError(-32602)

(***************************************************************************)
(* C24: a tools/call request whose params.name is not the name of a        *)
(* registered tool is answered by _process_mcp_request with error -32601   *)
(* (not the method-not-found error), never with a success result.          *)
(***************************************************************************)
C24_UnknownToolIsAnError ==
    (/\ ValidEnvelope
     /\ rpc.dispatcher = "_process_mcp_request"
     /\ Get(rpc.request, "method", "None") = "tools/call"
     /\ HasToolName(Get(rpc.request, "params", "{}"))
     /\ \A i \in DOMAIN RegisteredTools :
            RegisteredTools[i] # ToolName(rpc.request.params))
    => /\ IsError(-32601)
       /\ "available_methods" \notin DOMAIN rpc.response.error.data

(***************************************************************************)
(* Routing of Lambda events: LambdaHandler.__call__ (aws_lambda.py 30-304) *)
(* and mcp_server.lambda_handler (mcp_server.py 632-880).                  *)
(*                                                                         *)
(* An event is [httpMethod, path, headers, body, top]: httpMethod is       *)
(* Missing when the event has no such key, top holds the JSON-RPC keys an  *)
(* event carries at its top level. A body is [encoding, len, kind, json]:  *)
(* len and kind describe the text after base64 decoding, json is the       *)
(* parsed object when kind = "object". A response body is the JSON value   *)
(* that json.dumps serialises.                                             *)
(***************************************************************************)
MaxBodyLen == 4        \* stands for the 1 MiB of len(body) > 1024 * 1024

HttpMethods == {"GET", "POST", "OPTIONS", "DELETE"}
RouterPaths == {"/", "/health", "/openapi.json", "/nowhere"}
SubscriptionPaths == {"/subscription/usage", "/subscription/cancel", "/subscription/nowhere"}
\* path.startswith("/subscription/")
IsSubscriptionPath(path) == path \in SubscriptionPaths

BodyKinds ==
    {"not json", "object", "empty array", "array", "array of jsonrpc and method",
     "string", "number", "zero", "true", "false", "null"}
FalsyKinds == {"empty array", "zero", "false", "null"}
BodyLens == {1, MaxBodyLen, MaxBodyLen + 1}

\* the JSON-RPC requests that the events of the model carry
RouterRpcRequests ==
    {RpcRequest(j, m, i, p) :
        j \in {Missing, "2.0"}, m \in {Missing, "ping", "tools/call", "resources/list"},
        i \in {Missing, "7"}, p \in {Missing, "None", "{name: 'echo_message'}"}}
BodyObjects == {EmptyDict, [data |-> "x"]} \cup RouterRpcRequests

NoBody == [encoding |-> "plain", len |-> 0, kind |-> "empty", json |-> EmptyDict]
Bodies ==
    {NoBody}
    \cup {[encoding |-> "bad base64", len |-> 1, kind |-> "not json", json |-> EmptyDict]}
    \cup {[encoding |-> e, len |-> n, kind |-> k, json |-> EmptyDict] :
            e \in {"plain", "base64"}, n \in BodyLens, k \in BodyKinds \ {"object"}}
    \cup {[encoding |-> e, len |-> n, kind |-> "object", json |-> o] :
            e \in {"plain", "base64"}, n \in BodyLens, o \in BodyObjects}

HttpEvent(method, path, headers, body) ==
    [httpMethod |-> method, path |-> path, headers |-> headers, body |-> body,
     top |-> EmptyDict]
\* HTTP-style events; on /subscription/ paths the model sends neither GET nor
\* /subscription/create.
HttpEvents ==
    {HttpEvent(m, p, EmptyDict, b) : m \in HttpMethods, p \in RouterPaths, b \in Bodies}
SubscriptionEvents ==
    {HttpEvent(m, p, h, b) :
        m \in {"POST", "DELETE"}, p \in SubscriptionPaths, h \in RequestHeaders,
        b \in {NoBody,
               [encoding |-> "plain", len |-> 1, kind |-> "not json", json |-> EmptyDict],
               [encoding |-> "plain", len |-> MaxBodyLen + 1, kind |-> "object",
                json |-> [data |-> "x"]]}}
\* events without httpMethod: a JSON-RPC request at the top level, or nothing
DirectEvents ==
    {[httpMethod |-> Missing, path |-> "/", headers |-> EmptyDict, body |-> NoBody,
      top |-> r] : r \in RouterRpcRequests}
LambdaEvents == HttpEvents \cup SubscriptionEvents \cup DirectEvents

\* Events of no known shape: None, and an HTTP-style event whose path is null.
NoneEvent ==
    [httpMethod |-> Missing, path |-> "/", headers |-> EmptyDict, body |-> NoBody,
     top |-> EmptyDict, none |-> TRUE]
IsNone(ev) == "none" \in DOMAIN ev
OddEvents == {NoneEvent, HttpEvent("GET", "None", EmptyDict, NoBody)}
\* the events sent to a process that serves several invocations in a row
EntryBodies ==
    {NoBody,
     [encoding |-> "plain", len |-> 1, kind |-> "not json", json |-> EmptyDict],
     [encoding |-> "plain", len |-> 1, kind |-> "number", json |-> EmptyDict],
     [encoding |-> "plain", len |-> 1, kind |-> "object",
      json |-> RpcRequest("2.0", "ping", "7", Missing)]}
EntryEvents ==
    OddEvents
    \cup {HttpEvent(m, p, EmptyDict, b) :
            m \in {"GET", "POST", "DELETE"}, p \in {"/", "/health", "/nowhere"},
            b \in EntryBodies}
    \cup {[httpMethod |-> Missing, path |-> "/", headers |-> EmptyDict, body |-> NoBody,
           top |-> r] :
            r \in {RpcRequest("2.0", "ping", "7", Missing),
                   RpcRequest("2.0", Missing, "7", Missing),
                   RpcRequest(Missing, Missing, Missing, Missing)}}

JsonResponse(statusCode, body) ==
    [statusCode |-> statusCode, headers |-> [Content_Type |-> "application/json"],
     body |-> body]

\* _parse_request_body: the exception it raises, or the parsed value. The first
\* two definitions are a parser that reports every failure as ValueError, and a
\* parser that checks the size after json.loads.
_parse_request_body_AllValueErrors(ev) ==
    LET body == ev.body
    IN  IF body.kind = "empty"
        THEN [raised |-> "none", kind |-> "object", json |-> EmptyDict]
        ELSE IF body.encoding = "bad base64" \/ body.len > MaxBodyLen
                \/ body.kind \in {"not json", "string"}
        THEN [raised |-> "ValueError", kind |-> "", json |-> EmptyDict]
        ELSE [raised |-> "none", kind |-> body.kind, json |-> body.json]

_parse_request_body_ParseFirst(ev) ==
    LET body == ev.body
    IN  IF body.kind = "empty"
        THEN [raised |-> "none", kind |-> "object", json |-> EmptyDict]
        ELSE IF body.encoding = "bad base64"
        THEN [raised |-> "ValueError", kind |-> "", json |-> EmptyDict]
        ELSE IF body.kind = "not json"
        THEN [raised |-> "JSONDecodeError", kind |-> "", json |-> EmptyDict]
        ELSE IF body.len > MaxBodyLen \/ body.kind = "string"
        THEN [raised |-> "ValueError", kind |-> "", json |-> EmptyDict]
        ELSE [raised |-> "none", kind |-> body.kind, json |-> body.json]

_parse_request_body(ev) ==
    LET body == ev.body
        parsed(kind, json) == [raised |-> "none", kind |-> kind, json |-> json]
        raise(exc) == [raised |-> exc, kind |-> "", json |-> EmptyDict]
    IN  IF body.kind = "empty" THEN parsed("object", EmptyDict)
        ELSE IF body.encoding = "bad base64" THEN raise("ValueError")
        ELSE IF body.len > MaxBodyLen THEN raise("ValueError")
        ELSE IF body.kind = "not json" THEN raise("JSONDecodeError")
        ELSE IF body.kind = "string" THEN raise("ValueError")
        ELSE parsed(body.kind, body.json)

\* `not body_data`
IsFalsy(data) ==
    \/ data.kind \in FalsyKinds
    \/ data.kind = "object" /\ DOMAIN data.json = {}

\* _is_mcp_request: "jsonrpc" in data and "method" in data, or the TypeError of
\* `in` on a number or a boolean
_is_mcp_request(data) ==
    CASE data.kind = "object" ->
            IF {"jsonrpc", "method"} \subseteq DOMAIN data.json THEN "True" ELSE "False"
      [] data.kind = "array of jsonrpc and method" -> "True"
      [] data.kind \in {"number", "true"} -> "TypeError"
      [] OTHER -> "False"

ErrorBody(error_code) == [error_code |-> error_code]

\* The POST branch of _handle_http_request (aws_lambda.py 118-199).
HandlePost(ev) ==
    LET body_data == _parse_request_body(ev)
        answer(resp) == [response |-> resp, dispatcher |-> "none"]
    IN  IF body_data.raised = "JSONDecodeError"
        THEN answer(JsonResponse(400, ErrorBody("INVALID_JSON")))
        ELSE IF body_data.raised = "ValueError"
        THEN answer(JsonResponse(422, ErrorBody("VALIDATION_ERROR")))
        ELSE IF IsFalsy(body_data)
        THEN answer(JsonResponse(400, ErrorBody("MISSING_BODY")))
        ELSE IF _is_mcp_request(body_data) = "TypeError"
        THEN answer(JsonResponse(500, ErrorBody("PROCESSING_ERROR")))
        ELSE IF _is_mcp_request(body_data) = "True"
        THEN IF body_data.kind # "object"
             \* data.get on a list: AttributeError inside the dispatcher
             THEN [response |-> JsonResponse(500, ErrorBody("PROCESSING_ERROR")),
                   dispatcher |-> "_process_mcp_request"]
             ELSE [response |-> JsonResponse(200, _process_mcp_request(body_data.json).response),
                   dispatcher |-> "_process_mcp_request"]
        ELSE answer(JsonResponse(200, [message |-> "POST request received"]))

\* The method and path of a /subscription/ event as an operation of
\* _handle_subscription_request.
SubscriptionOp(method, path) ==
    IF path = "/subscription/usage" /\ method = "POST" THEN "usage"
    ELSE IF path = "/subscription/cancel" /\ method = "POST" THEN "cancel"
    ELSE "other"

_error_response(status_code, error_code) ==
    [statusCode |-> status_code,
     headers |-> [Content_Type |-> "application/json", X_Error_Code |-> error_code],
     body |-> ErrorBody(error_code)]

\* The methods that are not answered with 405; the first definition is a router
\* that lets DELETE through.
SupportedMethods_WithDelete == {"GET", "POST", "OPTIONS", "DELETE"}

SupportedMethods == {"GET", "POST", "OPTIONS"}

\* The response, the JSON-RPC dispatcher that was invoked, and the store the
\* request leaves behind.
_handle_http_request(ev, service, table, billing, t) ==
    LET method == ev.httpMethod
        path == ev.path
        stateless(r) == [response |-> r.response, dispatcher |-> r.dispatcher,
                         table |-> table, billing |-> billing]
        answer(resp) == stateless([response |-> resp, dispatcher |-> "none"])
        sub == subscription_request(SubscriptionOp(method, path), ev.headers, 1, service,
                                    table, billing, t, "ok", "ok", "ok", "ok")
    IN  IF IsSubscriptionPath(path)
        THEN [response |-> IF sub.error_code # ""
                           THEN _error_response(sub.statusCode, sub.error_code)
                           ELSE JsonResponse(sub.statusCode, [message |-> "subscription"]),
              dispatcher |-> "none", table |-> sub.table, billing |-> sub.billing]
        ELSE IF path = "/health" /\ method = "GET"
        THEN answer(JsonResponse(200, [status |-> "healthy"]))
        \* the OpenAPI document loads
        ELSE IF path = "/openapi.json" /\ method = "GET"
        THEN answer(JsonResponse(200, [openapi |-> "3.0.3"]))
        ELSE IF method = "POST"
        THEN stateless(HandlePost(ev))
        ELSE IF method \notin SupportedMethods
        THEN answer([statusCode |-> 405,
                     headers |-> [Content_Type |-> "application/json",
                                  Allow |-> "GET, POST, OPTIONS"],
                     body |-> ErrorBody("UNSUPPORTED_METHOD")])
        ELSE IF path \notin {"/", "/health", "/openapi.yaml", "/openapi.yml", "/openapi.json"}
                /\ method = "GET"
        THEN answer(JsonResponse(404, ErrorBody("INVALID_ENDPOINT")))
        ELSE answer(JsonResponse(200, [message |-> "remote-mcp-server"]))

\* A direct JSON-RPC event: the event itself is the request. The first
\* definition is a direct path that unwraps the result of the dispatcher.
_handle_mcp_request_Raw(ev) ==
    LET r == _process_mcp_request(ev.top).response
    IN  [response |-> JsonResponse(200, IF "result" \in DOMAIN r
                                        THEN [r EXCEPT !.result = [value |-> "raw"]]
                                        ELSE r),
         dispatcher |-> "_process_mcp_request"]

_handle_mcp_request(ev) ==
    [response |-> JsonResponse(200, _process_mcp_request(ev.top).response),
     dispatcher |-> "_process_mcp_request"]

_default_response == JsonResponse(200, [message |-> "remote-mcp-server"])

\* The first definition is a handler that records one use of the key of every
\* HTTP-style event before routing it.
__call___TracksUsage(ev, service, table, billing, t) ==
    LET k == extract_api_key(ev.headers)
        tracked == IF ev.httpMethod # Missing /\ k \in StoredKeys
                   THEN track_api_usage(table, k, 1, t, "ok").table
                   ELSE table
    IN  IF ev.httpMethod # Missing
        THEN _handle_http_request(ev, service, tracked, billing, t)
        ELSE [response |-> _default_response, dispatcher |-> "none",
              table |-> table, billing |-> billing]

__call__(ev, service, table, billing, t) ==
    \* event.get on None, path.startswith on None: AttributeError, caught at 43
    IF IsNone(ev) \/ (ev.httpMethod # Missing /\ ev.path = "None")
    THEN [response |-> _error_response(500, "LAMBDA_HANDLER_ERROR"),
          dispatcher |-> "none", table |-> table, billing |-> billing]
    ELSE IF ev.httpMethod # Missing
    THEN _handle_http_request(ev, service, table, billing, t)
    ELSE IF "method" \in DOMAIN ev.top
    THEN [response |-> _handle_mcp_request(ev).response,
          dispatcher |-> _handle_mcp_request(ev).dispatcher,
          table |-> table, billing |-> billing]
    ELSE [response |-> _default_response, dispatcher |-> "none",
          table |-> table, billing |-> billing]

\* mcp_server._process_lambda_event (mcp_server.py 759-878): no size limit,
\* no subscription endpoints; a body that is no JSON becomes {"raw_body": body}
\* and every exception of the POST branch becomes a 400.
_process_lambda_event(ev, logOutcome) ==
    LET answer(resp) == [response |-> resp, dispatcher |-> "none"]
        body == ev.body
        banner == JsonResponse(200, [message |-> "remote-mcp-server"])
        dispatched(request_data) ==
            [response |-> JsonResponse(200, handle_mcp_request(request_data, logOutcome)),
             dispatcher |-> "handle_mcp_request"]
    IN  IF ev.httpMethod # Missing
        THEN IF ev.path = "/health" /\ ev.httpMethod = "GET"
             THEN answer(JsonResponse(200, [status |-> "healthy"]))
             ELSE IF ev.httpMethod = "POST"
             THEN IF body.kind = "empty"
                  THEN answer(JsonResponse(200, [message |-> "POST request received"]))
                  ELSE IF body.encoding = "bad base64"
                  THEN answer(JsonResponse(400, [error |-> "Bad Request"]))
                  \* `in` on a number, a boolean or None: TypeError
                  ELSE IF body.kind \in {"number", "zero", "true", "false", "null"}
                  THEN answer(JsonResponse(400, [error |-> "Bad Request"]))
                  \* request_data.get on a list: AttributeError
                  ELSE IF body.kind = "array of jsonrpc and method"
                  THEN [response |-> JsonResponse(400, [error |-> "Bad Request"]),
                        dispatcher |-> "handle_mcp_request"]
                  ELSE IF body.kind = "object"
                          /\ {"jsonrpc", "method"} \subseteq DOMAIN body.json
                  THEN dispatched(body.json)
                  ELSE answer(JsonResponse(200, [message |-> "POST request received"]))
             ELSE answer(banner)
        ELSE IF "method" \in DOMAIN ev.top
        THEN dispatched(ev.top)
        ELSE answer(banner)

\* The Lambda context object: a real one, one without aws_request_id, and one
\* with aws_request_id but without the other attributes
\* log_aws_lambda_context reads.
ContextKinds == {"lambda", "bare", "partial"}

Raised500 == JsonResponse(500, [error |-> "Internal server error"])

\* lambda_handler without its decorator (mcp_server.py 632-757): the response
\* and the calls made to set_request_context and clear_request_context.
\* log_aws_lambda_context raises AttributeError before it sets the context
\* when the context object lacks function_name; event.keys() raises on None
\* after the context was set; `finally` clears on every path.  The variant
\* below clears only when no exception was raised.
lambda_handler_body_ClearOnSuccess(ev, logOutcome, ctx) ==
    IF ctx = "partial"
    THEN [response |-> Raised500, dispatcher |-> "none", trace |-> << >>]
    ELSE IF IsNone(ev)
    THEN [response |-> Raised500, dispatcher |-> "none", trace |-> <<"set">>]
    ELSE LET processed == _process_lambda_event(ev, logOutcome)
         IN  [response |-> processed.response, dispatcher |-> processed.dispatcher,
              trace |-> <<"set", "clear">>]

lambda_handler_body(ev, logOutcome, ctx) ==
    IF ctx = "partial"
    THEN [response |-> Raised500, dispatcher |-> "none", trace |-> <<"clear">>]
    ELSE IF IsNone(ev)
    THEN [response |-> Raised500, dispatcher |-> "none", trace |-> <<"set", "clear">>]
    ELSE LET processed == _process_lambda_event(ev, logOutcome)
         IN  [response |-> processed.response, dispatcher |-> processed.dispatcher,
              trace |-> <<"set", "clear">>]

\* The request context after the calls of a trace.
RECURSIVE ContextAfter(_, _)
ContextAfter(context, trace) ==
    IF trace = << >> THEN context
    ELSE ContextAfter(IF Head(trace) = "set" THEN "set" ELSE "empty", Tail(trace))

\* The decorated lambda_handler: log_function_entry_exit (logging_config.py
\* 268-351) calls PerformanceLogger.log_timing with a keyword `module` when
\* the call took more than 0.1 s; logging refuses the key with KeyError, which
\* the wrapper logs and raises again.
lambda_handler(ev, logOutcome, ctx, slow) ==
    LET r == lambda_handler_body(ev, logOutcome, ctx)
    IN  IF slow
        THEN [response |-> [statusCode |-> 0], dispatcher |-> r.dispatcher,
              trace |-> r.trace, raised |-> "KeyError"]
        ELSE [response |-> r.response, dispatcher |-> r.dispatcher,
              trace |-> r.trace, raised |-> "none"]

\* LambdaHandler.__call__ on one event.
call_step(ev) ==
    LET r == __call__(ev, billing_service, subscription_table, stripe, now)
    IN  /\ http' = [handler |-> "LambdaHandler.__call__", event |-> ev,
                    response |-> r.response, dispatcher |-> r.dispatcher,
                    raised |-> "none", trace |-> << >>,
                    request_context |-> http.request_context]
        /\ subscription_table' = r.table
        /\ stripe' = r.billing
        /\ UNCHANGED <<now, admin, rpc, limiterVars, seqVars, concVars, billing_service,
                       reqVars>>

\* mcp_server.lambda_handler on one event.
lambda_handler_step(ev, logOutcome, ctx, slow) ==
    LET r == lambda_handler(ev, logOutcome, ctx, slow)
    IN  /\ http' = [handler |-> "lambda_handler", event |-> ev,
                    response |-> r.response, dispatcher |-> r.dispatcher,
                    raised |-> r.raised, trace |-> r.trace,
                    request_context |-> ContextAfter(http.request_context, r.trace)]
        /\ UNCHANGED <<now, admin, rpc, limiterVars, seqVars, concVars, storeVars, reqVars>>

call_stepAny == \E ev \in LambdaEvents : call_step(ev)
lambda_handler_stepAny ==
    \E ev \in LambdaEvents, l \in LogOutcomes, slow \in BOOLEAN :
        lambda_handler_step(ev, l, "lambda", slow)

\* The handlers keep no state between events: a behaviour routes one event.
FirstCall == http.handler = "none" /\ call_stepAny
FirstLambdaHandler == http.handler = "none" /\ lambda_handler_stepAny
NextRouter == FirstCall \/ FirstLambdaHandler
SpecRouter == Init /\ [][NextRouter]_vars

\* The event is a POST outside /subscription/ routed by LambdaHandler.__call__.
RoutedPost ==
    /\ http.handler = "LambdaHandler.__call__"
    /\ http.event.httpMethod = "POST"
    /\ ~IsSubscriptionPath(http.event.path)
\* The JSON-RPC request the event carries, through its body or at its top level.
CarriedRequest ==
    IF http.event.httpMethod = Missing THEN http.event.top ELSE http.event.body.json
\* The event was answered with the result of a tools/call.
SuccessfulToolsCall ==
    /\ http.handler # "none"
    /\ http.dispatcher # "none"
    /\ http.event.httpMethod \in {Missing, "POST"}
    /\ Get(CarriedRequest, "method", "None") = "tools/call"
    /\ http.response.statusCode = 200
    /\ "result" \in DOMAIN http.response.body
ErrorCodeOf(resp) == Get(resp.body, "error_code", "")

BodyIsNoJson ==
    /\ http.event.body.kind = "not json"
    /\ http.event.body.encoding # "bad base64"

(***************************************************************************)
(* C26: a POST outside /subscription/ whose body is non-empty, decodes, is *)
(* at most 1 MiB long and is not syntactically valid JSON is answered      *)
(* with status 400 and error_code INVALID_JSON, and the JSON-RPC           *)
(* dispatcher is not invoked.                                              *)
(***************************************************************************)
C26_InvalidJsonIs400 ==
    (RoutedPost /\ BodyIsNoJson /\ http.event.body.len <= MaxBodyLen)
    => /\ http.response.statusCode = 400
       /\ ErrorCodeOf(http.response) = "INVALID_JSON"
       /\ http.dispatcher = "none"

\* C26 as stated: every POST whose body is not syntactically valid JSON is
\* answered with 400 INVALID_JSON.
C26_EveryInvalidJsonIs400 ==
    (/\ http.handler = "LambdaHandler.__call__"
     /\ http.event.httpMethod = "POST"
     /\ BodyIsNoJson)
    => /\ http.response.statusCode = 400
       /\ ErrorCodeOf(http.response) = "INVALID_JSON"
       /\ http.dispatcher = "none"

C26_Witness ==
    /\ RoutedPost
    /\ BodyIsNoJson
    /\ http.event.body.encoding = "base64"
    /\ http.event.body.len = MaxBodyLen
    /\ http.response.statusCode = 400
    /\ ErrorCodeOf(http.response) = "INVALID_JSON"

\* The body is text (base64 decoding, when asked for, succeeded).
BodyDecodes == http.event.body.kind # "empty" /\ http.event.body.encoding # "bad base64"
Is422 ==
    /\ http.response.statusCode = 422
    /\ ErrorCodeOf(http.response) = "VALIDATION_ERROR"

(***************************************************************************)
(* C27: a POST outside /subscription/ whose decoded body is longer than    *)
(* the limit (1 MiB) is answered with status 422 and error_code            *)
(* VALIDATION_ERROR whether or not its content is valid JSON (the size     *)
(* check precedes JSON parsing), while a body of exactly the limit is not  *)
(* rejected for size.                                                      *)
(***************************************************************************)
C27_OversizedBodyIs422 ==
    /\ (RoutedPost /\ BodyDecodes /\ http.event.body.len > MaxBodyLen) => Is422
    /\ (RoutedPost /\ BodyDecodes /\ http.event.body.len = MaxBodyLen /\ Is422)
       => http.event.body.kind = "string"

\* C27 as stated: every POST with an oversized body is answered with 422.
C27_EveryOversizedPostIs422 ==
    (/\ http.handler = "LambdaHandler.__call__"
     /\ http.event.httpMethod = "POST"
     /\ BodyDecodes
     /\ http.event.body.len > MaxBodyLen)
    => Is422

C27_Witness ==
    /\ RoutedPost
    /\ http.event.body.kind = "not json"
    /\ http.event.body.encoding = "plain"
    /\ http.event.body.len = MaxBodyLen + 1
    /\ Is422

\* An HTTP-style event with a method other than GET, POST and OPTIONS was
\* routed by LambdaHandler.__call__.
RoutedOtherMethod ==
    /\ http.handler = "LambdaHandler.__call__"
    /\ http.event.httpMethod \notin {Missing, "GET", "POST", "OPTIONS"}
Is405 ==
    /\ http.response.statusCode = 405
    /\ ErrorCodeOf(http.response) = "UNSUPPORTED_METHOD"
    /\ Get(http.response.headers, "Allow", "") = "GET, POST, OPTIONS"

(***************************************************************************)
(* C28: every HTTP-style request whose method is not GET, POST or OPTIONS  *)
(* and whose path does not start with /subscription/ is answered with      *)
(* status 405, error_code UNSUPPORTED_METHOD and header                    *)
(* Allow: GET, POST, OPTIONS; on a /subscription/ path the subscription    *)
(* endpoints answer instead, never with 405.                               *)
(***************************************************************************)
C28_OtherMethodIs405 ==
    /\ (RoutedOtherMethod /\ ~IsSubscriptionPath(http.event.path)) => Is405
    /\ (RoutedOtherMethod /\ IsSubscriptionPath(http.event.path))
       => http.response.statusCode \in {404, 503}

\* C28 as stated: 405 for any path.
C28_OtherMethodIs405OnAnyPath == RoutedOtherMethod => Is405

C28_Witness ==
    /\ RoutedOtherMethod
    /\ http.event.httpMethod = "DELETE"
    /\ http.event.path = "/health"
    /\ Is405

(***************************************************************************)
(* APIKeyMiddleware.extract_api_key over header names in several           *)
(* capitalisations.                                                        *)
(***************************************************************************)
KeyHeaderNames == {"X-API-Key", "x-api-key", "X-Api-Key"}
AuthHeaderNames == {"Authorization", "authorization", "AUTHORIZATION"}
KeyHeaderValues == {NoHeader} \cup {[scheme |-> "", token |-> k] : k \in Keys}
AuthHeaderValues ==
    {NoHeader, [scheme |-> "Bearer ", token |-> "k1"], [scheme |-> "Basic ", token |-> "k1"]}

\* The header dicts of the model: a header whose value is NoHeader is not in
\* the dict.
HeaderDict(f) == [n \in {m \in DOMAIN f : f[m] # NoHeader} |-> f[n]]
CasedHeaders ==
    {HeaderDict(kh @@ ah) :
        kh \in [KeyHeaderNames -> KeyHeaderValues], ah \in [AuthHeaderNames -> AuthHeaderValues]}

extract_api_key_step(headers) ==
    /\ http' = [handler |-> "extract_api_key", event |-> [headers |-> headers],
                response |-> [api_key |-> extract_api_key(headers)],
                dispatcher |-> "none", raised |-> "none", trace |-> << >>,
                request_context |-> http.request_context]
    /\ UNCHANGED <<now, admin, rpc, limiterVars, seqVars, concVars, storeVars, reqVars>>

\* extract_api_key keeps no state: a behaviour extracts from one event.
FirstExtract == http.handler = "none" /\ \E headers \in CasedHeaders : extract_api_key_step(headers)
NextExtract == FirstExtract
SpecExtract == Init /\ [][NextExtract]_vars

\* The values the event carries under the capitalisations of a header name.
ValuesUnder(names) == {http.event.headers[n] : n \in names \cap DOMAIN http.event.headers}

(***************************************************************************)
(* C29: extraction matches header names case-insensitively and prefers     *)
(* X-API-Key: when the event carries the value k under any capitalisation  *)
(* of X-API-Key, k is extracted (also when an Authorization header is      *)
(* present); when it carries no X-API-Key header and 'Bearer k' under any  *)
(* capitalisation of Authorization, k is extracted.                        *)
(***************************************************************************)
C29_CaseInsensitiveExtraction ==
    http.handler = "extract_api_key" =>
        /\ \A k \in Keys :
              ValuesUnder(KeyHeaderNames) = {[scheme |-> "", token |-> k]}
              => http.response.api_key = k
        /\ \A k \in Keys :
              (/\ ValuesUnder(KeyHeaderNames) = {}
               /\ ValuesUnder(AuthHeaderNames) = {[scheme |-> "Bearer ", token |-> k]})
              => http.response.api_key = k

(***************************************************************************)
(* Health checks between other requests: both handlers route events, among *)
(* them GET /health with and without an API key, while the rate limiter is *)
(* called and the bodies of the usage and cancel endpoints run.            *)
(***************************************************************************)
HealthEvents ==
    {HttpEvent("GET", "/health", h, NoBody) : h \in RequestHeaders}
OtherEvents ==
    {HttpEvent("POST", "/subscription/usage", "X-API-Key" :> [scheme |-> "", token |-> "k1"],
               NoBody),
     HttpEvent("POST", "/health", EmptyDict,
               [encoding |-> "plain", len |-> 1, kind |-> "object",
                json |-> RpcRequest("2.0", "ping", "7", Missing)]),
     HttpEvent("DELETE", "/health", EmptyDict, NoBody)}

call_stepMixed == \E ev \in HealthEvents \cup OtherEvents : call_step(ev)
lambda_handler_stepMixed ==
    \E ev \in HealthEvents \cup OtherEvents : lambda_handler_step(ev, "ok", "lambda", FALSE)

NextHealth ==
    \/ call_stepMixed
    \/ lambda_handler_stepMixed
    \/ CallAny
    \/ update_usage_bodyAny
    \/ cancel_subscription_bodyAny
SpecHealth == Init /\ [][NextHealth]_vars

\* This step routes a GET /health event.
HealthStep ==
    /\ http' # http
    /\ http'.handler \in {"LambdaHandler.__call__", "lambda_handler"}
    /\ http'.event.httpMethod = "GET"
    /\ http'.event.path = "/health"

(***************************************************************************)
(* C30: handling GET /health, any number of times and between any other    *)
(* requests, changes no stored subscription field (status, usage_count,    *)
(* last_usage, nor any other) and no rate-limiter state (request_counts,   *)
(* last_reset).                                                            *)
(***************************************************************************)
C30_HealthChangesNothing ==
    [][HealthStep => UNCHANGED <<subscription_table, stripe, request_counts, last_reset>>]_vars

\* A health check answered after usage was recorded and the limiter counted.
C30_Witness ==
    /\ http.handler = "LambdaHandler.__call__"
    /\ http.event.httpMethod = "GET"
    /\ http.event.path = "/health"
    /\ http.response.statusCode = 200
    /\ Get(http.response.body, "status", "") = "healthy"
    /\ extract_api_key(http.event.headers) = "k1"
    /\ subscription_table["k1"].usage_count > 0
    /\ request_counts["k1"] > 0


(***************************************************************************)
(* The two Lambda entry points on every event, called any number of times  *)
(* in one process: the request context of logging_config is module state   *)
(* and outlives an invocation.                                             *)
(***************************************************************************)
call_stepEntry == \E ev \in EntryEvents : call_step(ev)
lambda_handler_stepEntry ==
    \E ev \in EntryEvents, l \in LogOutcomes, ctx \in ContextKinds, slow \in BOOLEAN :
        lambda_handler_step(ev, l, ctx, slow)
NextEntry == call_stepEntry \/ lambda_handler_stepEntry
SpecEntry == Init /\ [][NextEntry]_vars

EntryPoints == {"LambdaHandler.__call__", "lambda_handler"}
NeitherKey(ev) == ~IsNone(ev) /\ ev.httpMethod = Missing /\ "method" \notin DOMAIN ev.top
IsBanner(resp) == resp.statusCode = 200 /\ "message" \in DOMAIN resp.body

\* C31: both Lambda entry points are total: whatever the event, the call
\* returns a response with a statusCode and raises nothing; an event with
\* neither httpMethod nor method is answered 200 with the service banner and
\* None is answered 500.
C31_EntryPointsAreTotal ==
    http.handler \in EntryPoints =>
        /\ http.raised = "none"
        /\ http.response.statusCode \in {200, 400, 401, 403, 404, 405, 422, 429, 500}
        /\ (IsNone(http.event) => http.response.statusCode = 500)
        /\ (NeitherKey(http.event) /\ http.trace # <<"clear">> => IsBanner(http.response))

\* C32: after every invocation of lambda_handler, clear_request_context has
\* run exactly once, as the last call on the request context, and the context
\* is empty: on the success path, on the exception path and when the
\* decorator raises.
ClearCount(trace) == Cardinality({i \in DOMAIN trace : trace[i] = "clear"})
C32_ContextClearedOnce ==
    http.handler = "lambda_handler" =>
        /\ ClearCount(http.trace) = 1
        /\ http.trace[Len(http.trace)] = "clear"
        /\ http.request_context = "empty"

\* C32 witness: an invocation on None that set the context, raised inside the
\* handler, was answered 500 and left the context empty.
C32_Witness ==
    /\ http.handler = "lambda_handler"
    /\ IsNone(http.event)
    /\ http.response.statusCode = 500
    /\ http.trace = <<"set", "clear">>
    /\ http.request_context = "empty"


(***************************************************************************)
(* The envelope checks of _process_mcp_request, in the order of the code.  *)
(***************************************************************************)
FailsVersion(data) == Get(data, "jsonrpc", Missing) # "2.0"
FailsMethod(data) == Get(data, "method", "None") \in {"None", ""}
FailsId(data) == Get(data, "id", "None") = "None"
FirstFailingCheck(data) ==
    IF FailsVersion(data) THEN "jsonrpc"
    ELSE IF FailsMethod(data) THEN "method"
    ELSE IF FailsId(data) THEN "id"
    ELSE "none"

\* C33: a request that fails an envelope check of _process_mcp_request is
\* answered by the first failing check in the order version, method, id:
\* always error -32600; the version and the method check echo the request id
\* (null when there is none), the id check answers id null; no method branch
\* has run.
C33_FirstFailingCheckAnswers ==
    rpc.dispatcher = "_process_mcp_request" /\ FirstFailingCheck(rpc.request) # "none" =>
        /\ IsError(-32600)
        /\ rpc.response.error.data.details = FirstFailingCheck(rpc.request)
        /\ rpc.response.id = Get(rpc.request, "id", "None")
        /\ "result" \notin DOMAIN rpc.response
        /\ rpc.handler = "none"

\* C33 witness: a request that fails all three checks answered by the version
\* check.
C33_Witness ==
    /\ rpc.dispatcher = "_process_mcp_request"
    /\ FailsVersion(rpc.request) /\ FailsMethod(rpc.request) /\ FailsId(rpc.request)
    /\ IsError(-32600)
    /\ rpc.response.error.data.details = "jsonrpc"
    /\ rpc.response.id = "None"


(***************************************************************************)
(* Frame of one is_rate_limited call.                                      *)
(***************************************************************************)
\* the step is a call of is_rate_limited for key k
CalledFor(k) == calls' = calls + 1 /\ ret'.key = k

\* C34: a call of is_rate_limited that returns limited=True leaves the key's
\* count and window_start as they were and reports the stored count as
\* current_count.
C34_LimitedCallChangesNothing ==
    [][\A k \in Keys :
         CalledFor(k) /\ ret'.limited =>
             /\ request_counts'[k] = request_counts[k]
             /\ last_reset'[k] = last_reset[k]
             /\ ret'.current_count = request_counts'[k]]_vars

\* C34 witness: a call was rejected for a key whose window holds as many
\* calls as the ceiling.
C34_Witness ==
    /\ ret.limited
    /\ ret.key \in Keys
    /\ ret.current_count = request_counts[ret.key]
    /\ ret.current_count >= ret.rate_limit
    /\ last_reset[ret.key] # NoReset

\* C35: a call of is_rate_limited for key k leaves count and window_start of
\* every other key as they were, whether it resets k's window, admits the
\* call or rejects it.
C35_OtherKeysUntouched ==
    [][\A k \in Keys :
         CalledFor(k) =>
             \A other \in Keys \ {k} :
                 /\ request_counts'[other] = request_counts[other]
                 /\ last_reset'[other] = last_reset[other]]_vars

\* C35 witness: a call for k2 began a window for k2 while k1 holds calls of an
\* earlier window.
C35_Witness ==
    /\ ret.key = "k2"
    /\ request_counts["k1"] > 0
    /\ last_reset["k1"] # NoReset
    /\ last_reset["k2"] = now
    /\ last_reset["k1"] < last_reset["k2"]


(***************************************************************************)
(* with_rate_limiting()(handler) called on its own, on events with and     *)
(* without the context require_api_key attaches (middleware.py 317-355).   *)
(***************************************************************************)
\* event.get('subscription'): absent (or empty), or the details of a plan
EventSubscriptions ==
    {EmptyDict, [valid |-> TRUE], [valid |-> TRUE, plan_id |-> "professional"]}
\* event.get('api_key'): absent (or empty), or a key
EventKeys == {NoKey, "k1"}

\* One whole call of the wrapper with_rate_limiting returns.
rate_limit_wrapper(subscription, k, handlerOutcome) ==
    LET c == call_func(TRUE, subscription, k, request_counts, last_reset, now,
                       handlerOutcome)
    IN  /\ pc = "idle"
        /\ nreq < MaxRequests
        /\ nreq' = nreq + 1
        /\ cfg' = [track_usage |-> FALSE, rate_limited |-> TRUE]
        /\ event' = [api_key |-> k, subscribed |-> subscription # EmptyDict]
        /\ IF c.limiter
           THEN LimiterCall(k, get_rate_limits(Get(subscription, "plan_id", "basic")))
           ELSE UNCHANGED <<limiterVars, ret, winStart, winCalls, winLimit>>
        /\ log' = (IF c.limiter THEN <<"limiter">> ELSE << >>)
                      \o (IF c.handler THEN <<"handler">> ELSE << >>)
        /\ fault' = [NoFault EXCEPT !.handler = IF c.handler THEN handlerOutcome ELSE "none"]
        /\ response' = c.response
        /\ raised' = c.exc
        /\ UNCHANGED <<now, edgeVars, calls, concVars, storeVars, pc, api_key,
                       validation, usage0>>

rate_limit_wrapperAny ==
    \E subscription \in EventSubscriptions, k \in EventKeys, h \in HandlerOutcomes :
        rate_limit_wrapper(subscription, k, h)
NextWrapper == Tick \/ rate_limit_wrapperAny
SpecWrapper == Init /\ [][NextWrapper]_vars

\* the step is a call of the wrapper on an event without subscription or
\* without api_key
PassThroughStep ==
    /\ nreq' = nreq + 1
    /\ cfg'.rate_limited
    /\ ~event'.subscribed \/ event'.api_key = NoKey

\* C36: with_rate_limiting passes an event without subscription or without
\* api_key through: the handler runs exactly once, its response comes back
\* as it is (no X-RateLimit-* header), the limiter is not consulted, its
\* state does not change and the answer is never 429.
C36_PassThroughWithoutContext ==
    [][PassThroughStep =>
          /\ log' = <<"handler">>
          /\ fault'.handler = "ok" => (response' = HandlerResponse /\ raised' = "none")
          /\ fault'.handler # "ok" => (response' = NoResponse /\ raised' = fault'.handler)
          /\ response'.statusCode # 429
          /\ UNCHANGED <<request_counts, last_reset>>]_vars

\* C36 witness: an event with an api_key but no subscription passed through
\* although the limiter has already rejected that key.
C36_Witness ==
    /\ cfg.rate_limited
    /\ nreq > 0
    /\ ~event.subscribed
    /\ event.api_key \in Keys
    /\ log = <<"handler">>
    /\ response = HandlerResponse
    /\ request_counts[event.api_key] >= BasicRateLimit
    /\ "X-RateLimit-Limit" \notin DOMAIN response.headers


(***************************************************************************)
(* What a validation leaves in the subscriptions table.                    *)
(***************************************************************************)
\* the step is the validation of the current request
ValidateStep == pc = "validate" /\ pc' # "validate"
\* the stored item of the request's key is as before, its status aside
OnlyStatusWritten ==
    /\ [subscription_table'[api_key] EXCEPT !.status = subscription_table[api_key].status]
           = subscription_table[api_key]
    /\ \A k \in Keys \ {api_key} : subscription_table'[k] = subscription_table[k]
StatusSynced ==
    subscription_table'[api_key].status =
        stripe[subscription_table[api_key].subscription_id].status

\* C37 as stated: after a validation in which the table lookup and the
\* Stripe lookup succeeded, the stored status is the authoritative status,
\* whatever the verdict, and no other stored field has changed.
C37_StatusSyncedAfterEveryLookup ==
    [][ValidateStep /\ LookedUp' => StatusSynced /\ OnlyStatusWritten]_vars

\* C37, amended: the same, provided the status write, when one was needed,
\* succeeded; when the write failed the table is exactly as before.
C37_StatusSyncedWhenWritten ==
    [][ValidateStep /\ LookedUp' =>
          /\ fault'.update \in {"none", "ok"} => StatusSynced /\ OnlyStatusWritten
          /\ fault'.update \notin {"none", "ok"} => subscription_table' = subscription_table]_vars

\* C37 witness: a validation found the status changed to one outside
\* active/trialing, stored it and returned an invalid verdict.
C37_Witness ==
    /\ LookedUp
    /\ fault.update = "ok"
    /\ ~validation.is_valid
    /\ Authoritative.status \notin ActiveStatuses
    /\ Stored.status = Authoritative.status
    /\ Stored.usage_count = usage0[api_key]


\* C38: with require_api_key(track_usage=True) around with_rate_limiting, a
\* request the limiter rejects with 429 has not incremented the
\* subscription's usage_count.
C38_RejectedRequestNotBilled ==
    (/\ pc = "done"
     /\ cfg.track_usage
     /\ cfg.rate_limited
     /\ response.statusCode = 429)
    => UsageCount(api_key) = usage0[api_key]


\* the body is syntactically valid JSON that decodes
BodyIsJson == BodyDecodes /\ http.event.body.kind # "not json"

\* C39: a POST outside /subscription/ handled by LambdaHandler whose body is
\* valid JSON of any top-level type is answered 200, 400 or 422, never 5xx.
C39_ValidJsonNever5xx ==
    RoutedPost /\ BodyIsJson => http.response.statusCode \in {200, 400, 422}

====
